---- MODULE Spec2Model ----
(***************************************************************************)
(* wowasi_ya: the document generation pipeline (core/generator.py), the    *)
(* provider clients and their fallback policy (core/llm_client.py).        *)
(*                                                                         *)
(* Text is a sequence of one-character strings, so that the truncation     *)
(* detector, the word count and the error placeholder are computed on the  *)
(* characters as the Python code computes them.                            *)
(***************************************************************************)
EXTENDS Integers, Sequences, FiniteSets, TLC

\* ------------------------------------------------------------------ text

\* The backquote character (U+0060), which a TLA+ string literal cannot hold
Backtick == "U+0060"

\* The delimiter of a fenced code block, three backquotes
Fence == <<Backtick, Backtick, Backtick>>

\* str.strip(), str.split() and the regex class \s: the whitespace characters
IsSpace(c) == c \in {" ", "\t", "\n", "\r"}

\* the regex class \d
IsDigit(c) == c \in {"0", "1", "2", "3", "4", "5", "6", "7", "8", "9"}

RECURSIVE LStrip(_)
LStrip(s) ==
  IF s = <<>> THEN s
  ELSE IF IsSpace(Head(s)) THEN LStrip(Tail(s)) ELSE s

RECURSIVE RStrip(_)
RStrip(s) ==
  IF s = <<>> THEN s
  ELSE IF IsSpace(s[Len(s)]) THEN RStrip(SubSeq(s, 1, Len(s) - 1)) ELSE s

\* str.strip()
Strip(s) == RStrip(LStrip(s))

\* s.startswith(p)
StartsWith(s, p) == Len(s) >= Len(p) /\ SubSeq(s, 1, Len(p)) = p

\* s.endswith(p)
EndsWith(s, p) == Len(s) >= Len(p) /\ SubSeq(s, Len(s) - Len(p) + 1, Len(s)) = p

\* str.count(p): the number of non-overlapping occurrences, scanning from the left
RECURSIVE Count(_, _)
Count(s, p) ==
  IF Len(s) < Len(p) THEN 0
  ELSE IF StartsWith(s, p) THEN 1 + Count(SubSeq(s, Len(p) + 1, Len(s)), p)
  ELSE Count(Tail(s), p)

\* str.split("\n"): the pieces between newlines, empty pieces kept
RECURSIVE SplitLines(_, _)
SplitLines(s, cur) ==
  IF s = <<>> THEN <<cur>>
  ELSE IF Head(s) = "\n" THEN <<cur>> \o SplitLines(Tail(s), <<>>)
  ELSE SplitLines(Tail(s), Append(cur, Head(s)))

\* [l.strip() for l in content.split("\n") if l.strip()]
RECURSIVE StripNonEmpty(_)
StripNonEmpty(ls) ==
  IF ls = <<>> THEN <<>>
  ELSE IF Strip(Head(ls)) = <<>> THEN StripNonEmpty(Tail(ls))
  ELSE <<Strip(Head(ls))>> \o StripNonEmpty(Tail(ls))

\* len(content.split()): the number of maximal runs of non-whitespace characters
WordCount(s) ==
  Cardinality({i \in 1..Len(s) : ~IsSpace(s[i]) /\ (i = 1 \/ IsSpace(s[i - 1]))})

\* content[-n:]
LastChars(s, n) == IF Len(s) <= n THEN s ELSE SubSeq(s, Len(s) - n + 1, Len(s))

\* ------------------------------------------------- _is_content_truncated

\* r"^#+\s": a heading
IsHeading(l) ==
  \E k \in 1..Len(l) :
    /\ \A i \in 1..k : l[i] = "#"
    /\ k + 1 <= Len(l)
    /\ IsSpace(l[k + 1])

\* r"^\|.*\|$": a table row
IsTableRow(l) == Len(l) >= 2 /\ l[1] = "|" /\ l[Len(l)] = "|"

\* r"^" followed by three backquotes: a code block marker
IsFenceLine(l) == StartsWith(l, Fence)

\* r"^---$": a horizontal rule
IsRule(l) == l = <<"-", "-", "-">>

\* r"^[-*+]\s": a list item
IsListItem(l) == Len(l) >= 2 /\ l[1] \in {"-", "*", "+"} /\ IsSpace(l[2])

\* r"^\d+\.\s": a numbered list item
IsNumbered(l) ==
  \E k \in 1..Len(l) :
    /\ \A i \in 1..k : IsDigit(l[i])
    /\ k + 2 <= Len(l)
    /\ l[k + 1] = "."
    /\ IsSpace(l[k + 2])

\* any(re.match(p, last_line) for p in skip_patterns)
IsSpecialLine(l) ==
  IsHeading(l) \/ IsTableRow(l) \/ IsFenceLine(l) \/ IsRule(l) \/ IsListItem(l)
    \/ IsNumbered(l)

valid_endings == {".", "!", "?", ":", ")", "]", "\"", "'", Backtick, "*", "_"}

\* r"\*\*[^*]+$" found in t
UnclosedBold(t) ==
  \E i \in 1..Len(t) :
    /\ i + 2 <= Len(t)
    /\ t[i] = "*"
    /\ t[i + 1] = "*"
    /\ \A j \in (i + 2)..Len(t) : t[j] # "*"

\* r"\[[^\]]*$" found in t
UnclosedLink(t) ==
  \E i \in 1..Len(t) : t[i] = "[" /\ \A j \in (i + 1)..Len(t) : t[j] # "]"

\* the window of check 3, content[-200:]
TailWindow == 200

\* the checks of _is_content_truncated on c, the stripped content, its
\* stripped non-empty lines and the last of them
ReasonOf(c, lines, last_line) ==
  IF c = <<>> THEN "Content is empty"
  ELSE IF Count(c, Fence) % 2 # 0 THEN "Unbalanced code blocks"
  ELSE IF /\ lines # <<>>
          /\ ~IsSpecialLine(last_line)
          /\ last_line[Len(last_line)] \notin valid_endings
       THEN "Ends mid-sentence"
  ELSE IF UnclosedBold(LastChars(c, TailWindow)) THEN "Unclosed bold"
  ELSE IF UnclosedLink(LastChars(c, TailWindow)) THEN "Unclosed link"
  ELSE ""

\* the reason _is_content_truncated gives, "" when the content is not
\* truncated; c, lines and last_line are computed once each
TruncationReason(content) ==
  CHOOSE reason \in
    UNION {{ReasonOf(c, lines, last_line) :
              last_line \in {IF lines = <<>> THEN <<>> ELSE lines[Len(lines)]}} :
           c \in {Strip(content)},
           lines \in {StripNonEmpty(SplitLines(Strip(content), <<>>))}} : TRUE

_is_content_truncated(content) == TruncationReason(content) # ""

\* ------------------------------------------------------- document tables

DOCUMENT_CONFIG ==
  ("README" :> [folder |-> "00-Overview", filename |-> "README.md",
      title |-> <<"P","r","o","j","e","c","t"," ","O","v","e","r","v","i","e","w">>])
  @@ ("PROJECT_BRIEF" :> [folder |-> "00-Overview", filename |-> "Project-Brief.md",
      title |-> <<"P","r","o","j","e","c","t"," ","B","r","i","e","f">>])
  @@ ("GLOSSARY" :> [folder |-> "00-Overview", filename |-> "Glossary.md",
      title |-> <<"G","l","o","s","s","a","r","y">>])
  @@ ("CONTEXT_BACKGROUND" :> [folder |-> "10-Discovery", filename |-> "Context-and-Background.md",
      title |-> <<"C","o","n","t","e","x","t"," ","a","n","d"," ","B","a","c","k","g","r","o","u","n","d">>])
  @@ ("STAKEHOLDER_NOTES" :> [folder |-> "10-Discovery", filename |-> "Stakeholder-Notes.md",
      title |-> <<"S","t","a","k","e","h","o","l","d","e","r"," ","N","o","t","e","s">>])
  @@ ("GOALS_SUCCESS" :> [folder |-> "20-Planning", filename |-> "Goals-and-Success-Criteria.md",
      title |-> <<"G","o","a","l","s"," ","a","n","d"," ","S","u","c","c","e","s","s"," ","C","r","i","t","e","r","i","a">>])
  @@ ("SCOPE_BOUNDARIES" :> [folder |-> "20-Planning", filename |-> "Scope-and-Boundaries.md",
      title |-> <<"S","c","o","p","e"," ","a","n","d"," ","B","o","u","n","d","a","r","i","e","s">>])
  @@ ("INITIAL_BUDGET" :> [folder |-> "20-Planning", filename |-> "Initial-Budget.md",
      title |-> <<"I","n","i","t","i","a","l"," ","B","u","d","g","e","t">>])
  @@ ("TIMELINE_MILESTONES" :> [folder |-> "20-Planning", filename |-> "Timeline-and-Milestones.md",
      title |-> <<"T","i","m","e","l","i","n","e"," ","a","n","d"," ","M","i","l","e","s","t","o","n","e","s">>])
  @@ ("RISKS_ASSUMPTIONS" :> [folder |-> "20-Planning", filename |-> "Risks-and-Assumptions.md",
      title |-> <<"R","i","s","k","s"," ","a","n","d"," ","A","s","s","u","m","p","t","i","o","n","s">>])
  @@ ("PROCESS_WORKFLOW" :> [folder |-> "30-Execution", filename |-> "Process-Workflow.md",
      title |-> <<"P","r","o","c","e","s","s"," ","W","o","r","k","f","l","o","w">>])
  @@ ("SOPS" :> [folder |-> "30-Execution", filename |-> "SOPs.md",
      title |-> <<"S","t","a","n","d","a","r","d"," ","O","p","e","r","a","t","i","n","g"," ","P","r","o","c","e","d","u","r","e","s">>])
  @@ ("TASK_BACKLOG" :> [folder |-> "30-Execution", filename |-> "Task-Backlog.md",
      title |-> <<"T","a","s","k"," ","B","a","c","k","l","o","g">>])
  @@ ("MEETING_NOTES" :> [folder |-> "40-Comms", filename |-> "Meeting-Notes.md",
      title |-> <<"M","e","e","t","i","n","g"," ","N","o","t","e","s">>])
  @@ ("STATUS_UPDATES" :> [folder |-> "40-Comms", filename |-> "Status-Updates.md",
      title |-> <<"S","t","a","t","u","s"," ","U","p","d","a","t","e","s">>])

\* DOCUMENT_BATCHES, in list order
DOCUMENT_BATCHES ==
  << [batch_number |-> 1,
      document_types |-> <<"README", "PROJECT_BRIEF", "GLOSSARY">>,
      depends_on |-> {}],
     [batch_number |-> 2,
      document_types |-> <<"CONTEXT_BACKGROUND", "STAKEHOLDER_NOTES">>,
      depends_on |-> {1}],
     [batch_number |-> 3,
      document_types |-> <<"GOALS_SUCCESS", "SCOPE_BOUNDARIES", "INITIAL_BUDGET",
                           "TIMELINE_MILESTONES", "RISKS_ASSUMPTIONS">>,
      depends_on |-> {1, 2}],
     [batch_number |-> 4,
      document_types |-> <<"PROCESS_WORKFLOW", "SOPS", "TASK_BACKLOG">>,
      depends_on |-> {3}],
     [batch_number |-> 5,
      document_types |-> <<"MEETING_NOTES", "STATUS_UPDATES">>,
      depends_on |-> {}] >>

\* the members of the enum DocumentType
DocumentType ==
  {"README", "PROJECT_BRIEF", "GLOSSARY", "CONTEXT_BACKGROUND", "STAKEHOLDER_NOTES",
   "GOALS_SUCCESS", "SCOPE_BOUNDARIES", "INITIAL_BUDGET", "TIMELINE_MILESTONES",
   "RISKS_ASSUMPTIONS", "PROCESS_WORKFLOW", "SOPS", "TASK_BACKLOG", "MEETING_NOTES",
   "STATUS_UPDATES"}

\* ---------------------------------------------------------- environment

\* The lengths of the retry loops that the single-document specification explores
\* (generate_document's max_retries argument ranges over 0..MaxRetriesArg)
MaxRetriesArg == 2

\* In a generate_all run, the number of documents for which the provider may
\* misbehave (raise or return truncated content); within such a document every
\* sequence of outcomes is explored
MaxFaultyDocs == 1

\* fixed well-formed markdown: "# T\nAll done."
WellFormed == <<"#", " ", "T", "\n", "A", "l", "l", " ", "d", "o", "n", "e", ".">>

\* text cut off in the middle of a sentence: "the budget is"
CutOff == <<"t", "h", "e", " ", "b", "u", "d", "g", "e", "t", " ", "i", "s">>

\* an empty response and a whitespace-only response
Empty == <<>>

Blank == <<" ", "\n">>

\* a response with an odd number of fences that ends in a full stop
OddFence == Fence \o <<"\n", "x", ".">>

\* text that ends in a full sentence: "finalized."
Finalized == <<"f", "i", "n", "a", "l", "i", "z", "e", "d", ".">>

\* a bold span with both of its delimiters: "**a**"
ClosedBold == <<"*", "*", "a", "*", "*">>

\* the pieces the contents given to the truncation detector are made of
ContentPieces ==
  {ClosedBold, <<"*", "*">>, <<"a">>, <<".">>, <<"\n">>, Fence, <<"[">>, <<"]">>,
   <<"#", " ">>, <<"-", " ">>, <<"|">>, CutOff, Finalized}

\* the largest number of pieces in one content
MaxPieces == 3

\* the concatenations of n pieces
RECURSIVE Concatenations(_)
Concatenations(n) ==
  IF n = 0 THEN {<<>>}
  ELSE {piece \o rest : piece \in ContentPieces, rest \in Concatenations(n - 1)}

\* the contents _is_content_truncated is called with
Contents == UNION {Concatenations(n) : n \in 0..MaxPieces}

\* what str(e) gives for the exceptions a provider call raises
TimeoutError == <<"t", "i", "m", "e", "o", "u", "t">>

HTTPError == <<"5", "0", "3">>

\* the responses and errors of a generate_all run
RunResponses == {WellFormed, CutOff}

RunErrors == {TimeoutError}

\* the responses and errors of a single generate_document call
DocResponses == {WellFormed, CutOff, Empty, Blank, OddFence}

DocErrors == {TimeoutError, HTTPError}

\* the generate() calls made on one FallbackClient during its lifetime
MaxCalls == 2

Calls == 1..MaxCalls

\* the arguments of those calls
Prompts == {"prompt-a", "prompt-b"}

MaxTokensArgs == {4096, 8192}

Temperatures == {"0.7", "0.2"}

\* the exceptions the two backends raise
ClaudeErrors == {"RateLimitError", "APIConnectionError"}

LlamaErrors == {"HTTPError"}

\* the statuses and failures of the two GET requests of a liveness probe
ProbeAnswers == {"200", "404", "exception"}

\* the agents one execute_all call may be given
MaxAgents == 3

\* the largest max_concurrent_agents explored (ResearchConfig allows 1..10)
MaxConcurrent == 2

AgentIds ==
  <<"agent_000_frameworks", "agent_001_health", "agent_002_finance",
    "agent_003_legal">>

AgentPriorities == <<2, 1, 3, 1>>

\* the agent definitions the input lists are drawn from
AgentPool == {[id |-> AgentIds[i], priority |-> AgentPriorities[i]] : i \in 1..MaxAgents}

\* the lists of distinct agents, in any order
AgentLists ==
  UNION {{l \in [1..n -> AgentPool] : \A i, j \in 1..n : i # j => l[i] # l[j]} :
         n \in 0..MaxAgents}

\* a response in the structure the research prompt asks for
StructuredResponse ==
  <<[kind |-> "text",
     text |->
       <<"F", "I", "N", "D", "I", "N", "G", "S", ":", "\n", "-", " ", "a", "\n", "S",
         "O", "U", "R", "C", "E", "S", ":", "\n", "-", " ", "b", "\n", "R", "E", "C",
         "O", "M", "M", "E", "N", "D", "A", "T", "I", "O", "N", "S", ":", "\n", "-",
         " ", "c">>]>>

\* a response whose text has no sections, after a block that holds no text
PlainResponse ==
  <<[kind |-> "server_tool_use", text |-> <<>>],
    [kind |-> "text", text |-> <<"n", "o", " ", "d", "a", "t", "a">>]>>

ResearchResponses == {StructuredResponse, PlainResponse}

\* the names of the sections the research prompts ask for, in their order
SectionNames ==
  [findings |-> <<"K", "E", "Y", " ", "F", "I", "N", "D", "I", "N", "G", "S">>,
   sources |-> <<"S", "O", "U", "R", "C", "E", "S">>,
   recommendations |-> <<"R", "E", "C", "O", "M", "M", "E", "N", "D", "A", "T", "I", "O", "N", "S">>]

Sections == <<"findings", "sources", "recommendations">>

\* the two ways the prompts write a section header: "NAME:" (the domain
\* prompt) and "### NAME" (the frameworks prompt)
HeaderStyles == {"colon", "heading"}

\* the header line of a section in a style
HeaderLine(section, style) ==
  IF style = "colon" THEN SectionNames[section] \o <<":">>
  ELSE <<"#", "#", "#", " ">> \o SectionNames[section]

\* the most bullet lines under one header
MaxBullets == 2

\* the texts of the bullet lines
BulletTexts == {<<"a">>, <<"b">>}

\* a response in the requested structure: a header style and 1..MaxBullets
\* bullet texts for each of the three sections
StructuredOutputs ==
  [style : [{"findings", "sources", "recommendations"} -> HeaderStyles],
   bullets : [{"findings", "sources", "recommendations"} ->
                UNION {[1..n -> BulletTexts] : n \in 1..MaxBullets}]]

\* the lines "- text" of the bullets
BulletLines(texts) == [i \in 1..Len(texts) |-> <<"-", " ">> \o texts[i]]

\* lines joined by "\n"
RECURSIVE JoinLines(_)
JoinLines(lines) ==
  IF lines = <<>> THEN <<>>
  ELSE IF Len(lines) = 1 THEN Head(lines)
  ELSE Head(lines) \o <<"\n">> \o JoinLines(Tail(lines))

\* the text of a structured output: each header followed by its bullets
OutputText(o) ==
  JoinLines(<<HeaderLine("findings", o.style["findings"])>>
              \o BulletLines(o.bullets["findings"])
            \o <<HeaderLine("sources", o.style["sources"])>>
              \o BulletLines(o.bullets["sources"])
            \o <<HeaderLine("recommendations", o.style["recommendations"])>>
              \o BulletLines(o.bullets["recommendations"]))

\* the provider response that carries a structured output in one text block
ResponseOf(o) == <<[kind |-> "text", text |-> OutputText(o)]>>

\* what str(e) gives for the exception a research provider call raises
ResearchErrors == {<<"4", "2", "9">>}

\* ------------------------------------------------------------------ state

VARIABLES
  settings,            \* Settings: provider selection and fallback toggles
  _client,             \* DocumentGenerator._client
  is_available,        \* get_generation_client: is_available ("None" before the probe)
  pc,                  \* where the generation coroutine stands
  batch_i,             \* generate_all: index of the batch in DOCUMENT_BATCHES
  all_documents,       \* generate_all: all_documents
  batch_previous_docs, \* generate_batch: its argument previous_docs
  type_i,              \* generate_batch: index of the type in batch.document_types
  documents,           \* generate_batch: documents
  doc_type,            \* generate_document: its argument doc_type
  previous_docs,       \* generate_document: its argument previous_docs
  max_retries,         \* generate_document: its argument max_retries
  attempt,             \* generate_document: the loop variable
  last_content,        \* generate_document: last_content
  last_error,          \* generate_document: str(last_error)
  in_flight,           \* the client.generate() calls issued and not yet completed
  doc,                 \* <<the Document generate_document returned>>, <<>> before
  result,              \* <<the GeneratedProject generate_all returned>>, <<>> before
  raised,              \* the exception that left generate_all ("None" if none)
  outcomes,            \* history: what each attempt of this document got
  generated,           \* history: the documents generate_document returned, in order
  how,                 \* history: how each of them came about
  n_calls,             \* history: client.generate() calls issued in the run
  doc_calls,           \* history: client.generate() calls issued for this document
  faulty_docs          \* history: documents that saw a raise or a truncation

genVars ==
  <<settings, _client, is_available, pc, batch_i, all_documents,
    batch_previous_docs, type_i, documents, doc_type, previous_docs, max_retries,
    attempt, last_content, last_error, in_flight, doc, result, raised, outcomes,
    generated, how, n_calls, doc_calls, faulty_docs>>

VARIABLES
  _llama_client,       \* FallbackClient._llama_client
  _llama_available,    \* FallbackClient._llama_available
  fb,                  \* the generate() calls made on the client, each with its
                       \* position
  claude_requests,     \* history: the requests ClaudeClient.generate received
  llama_requests,      \* history: the requests LlamaCPPClient.generate received
  health_checks        \* history: health_check calls made on the Llama client

fbVars ==
  <<_llama_client, _llama_available, fb, claude_requests, llama_requests,
    health_checks>>

VARIABLES
  agents,                \* execute_all: its argument agents
  max_concurrent_agents, \* ResearchConfig.max_concurrent_agents
  anthropic_ok,          \* whether anthropic.Anthropic(...) can be constructed
  research_client,       \* ResearchEngine._client
  sem_value,             \* the asyncio.Semaphore of execute_all: its value
  sem_waiters,           \* and the tasks suspended in its acquire()
  ready,                 \* the event loop's queue of tasks ready to run
  running,               \* the task that holds the event loop thread, 0 if none
  task,                  \* the bounded_execute tasks: position and result
  ea_pc,                 \* where execute_all stands
  final_results,         \* <<the list execute_all returned>>, <<>> before
  received,              \* history: what each agent's provider call gave
  started                \* history: the agents in the order they entered
                         \* execute_agent

rsVars ==
  <<agents, max_concurrent_agents, anthropic_ok, research_client, sem_value,
    sem_waiters, ready, running, task, ea_pc, final_results, received, started>>

VARIABLES
  probe                \* history: the GET requests of the last health_check
                       \* of a LlamaCPPClient, <<endpoint, answer>> each

\* the generation pipeline behind an approved project (api) or a run of the
\* generate command (cli)
VARIABLES
  entry,               \* "api" or "cli": where the pipeline was started from
  project,             \* the ProjectInput: name, description, additional_context
  use_sanitized,       \* whether the sanitized text was chosen
  discovered_agents,   \* the agents of the discovery on the project
  text_to_use,         \* the project context prepared for the API calls
  pl_pc,               \* "unused", "idle", "research", "generate", "done"
  type_n,              \* how many documents of generate_all have their prompt sent
  sent                 \* history: the prompts handed to a provider

plVars ==
  <<entry, project, use_sanitized, discovered_agents, text_to_use, pl_pc, type_n, sent>>

\* a call of one of the pure functions of the program on its own
VARIABLES
  fn,                  \* the name of the function, "None" when there is no call
  fn_arg,              \* the argument of the call
  fn_result            \* what the call returned, <<>> before it returns

fnVars == <<fn, fn_arg, fn_result>>

\* the API: the in-memory project states, the background tasks of approved
\* projects and the answer to the last request
VARIABLES
  project_states,      \* project id -> ProjectState, for the projects created
  background_tasks,    \* project id -> position -> how many pipeline tasks
  last_response,       \* the answer to the last request: handler, id, code
  provider_calls       \* history: <<project id, phase>> of the provider calls

apiVars == <<project_states, background_tasks, last_response, provider_calls>>

\* a request to the API touches no engine, generator or client of the model
ApiStep == UNCHANGED <<genVars, fbVars, probe, rsVars, plVars, fnVars>>

\* a call of a pure function touches no component
FunctionStep == UNCHANGED <<genVars, fbVars, probe, rsVars, plVars, apiVars>>

vars == <<genVars, fbVars, probe, rsVars, plVars, fnVars, apiVars>>

\* what a step of the generator leaves alone, the probe history apart
GeneratorFrame == UNCHANGED <<fbVars, rsVars, plVars, fnVars, apiVars>>

\* what a step on a client leaves alone, the probe history apart
FallbackFrame == UNCHANGED <<genVars, rsVars, plVars, fnVars, apiVars>>

\* a step of the generator leaves the other components alone
GeneratorStep == GeneratorFrame /\ UNCHANGED probe

\* a step of a FallbackClient leaves the other components alone
FallbackStep == FallbackFrame /\ UNCHANGED probe

\* a step of the research engine leaves the other components alone
ResearchStep == UNCHANGED <<genVars, fbVars, probe, plVars, fnVars, apiVars>>

\* a step of the pipeline, seen from outside the engine and the generator
PipelineStep == UNCHANGED <<genVars, fbVars, probe, rsVars, fnVars, apiVars>>

\* str(None), the text of last_error while no attempt has raised
NoneStr == <<"N", "o", "n", "e">>

\* the frame of generate_document, before the call and after its return
NoFrame ==
  /\ doc_type' = "None"
  /\ previous_docs' = <<>>
  /\ max_retries' = 0
  /\ attempt' = 0
  /\ last_content' = <<>>
  /\ last_error' = NoneStr

\* ------------------------------------------------------------- settings

\* Settings.max_generation_tokens as the class declares it
DefaultMaxGenerationTokens == 32000

\* the values of max_generation_tokens explored: the default, and one under
\* the ceiling generate_document applies
MaxGenerationTokensValues == {4096, DefaultMaxGenerationTokens}

SettingsSpace(tokens) ==
  [generation_provider : {"claude", "llamacpp"},
   llamacpp_fallback_to_claude : BOOLEAN,
   claude_fallback_to_llamacpp : BOOLEAN,
   max_generation_tokens : tokens]

\* the Settings of an environment that overrides none of these fields
DefaultSettings ==
  [generation_provider |-> "claude", llamacpp_fallback_to_claude |-> TRUE,
   claude_fallback_to_llamacpp |-> TRUE,
   max_generation_tokens |-> DefaultMaxGenerationTokens]

\* ------------------------------------------------------- llm_client.py

\* LlamaCPPClient.health_check: GET /health, and GET /v1/models when the first
\* request raised; health and models are the answers of the two endpoints
LlamaHealthCheck(health, models) ==
  IF health # "exception" THEN health = "200"
  ELSE IF models # "exception" THEN models = "200"
  ELSE FALSE

\* the GET requests health_check makes, each with its answer: /v1/models is
\* requested only when the request of /health raised
HealthRequests(health, models) ==
  IF health # "exception" THEN << <<"/health", health>> >>
  ELSE << <<"/health", health>>, <<"/v1/models", models>> >>

\* get_generation_client wraps the hosted client whatever the flag says
ClaudeGenerationClientAlwaysWrapped(s) == "FallbackClient"

\* get_generation_client for the default provider ("claude")
ClaudeGenerationClient(s) ==
  IF s.claude_fallback_to_llamacpp THEN "FallbackClient" ELSE "ClaudeClient"

\* get_generation_client with the fallback flag of the "llamacpp" branch ignored
LlamaGenerationClientNoFallback(s, available) ==
  IF available THEN "LlamaCPPClient" ELSE "RuntimeError"

\* get_generation_client for the provider "llamacpp", once the probe has answered:
\* the client returned, or "RuntimeError" when the function raises
LlamaGenerationClient(s, available) ==
  IF available THEN "LlamaCPPClient"
  ELSE IF s.llamacpp_fallback_to_claude THEN "ClaudeClient"
  ELSE "RuntimeError"

\* ClaudeClient.generate: "if max_tokens > 8000", the streaming threshold
StreamingThreshold == 8000

\* ClaudeClient.generate takes client.messages.stream(...) instead of
\* client.messages.create(...)
TakesStreamingPath(max_tokens) == max_tokens > StreamingThreshold

\* --------------------------------------------------------- generator.py

\* generate_document's default for max_retries
DefaultMaxRetries == 2

\* the ceiling of base_tokens
TokenCeiling == 8192

Min(a, b) == IF a <= b THEN a ELSE b

\* token_multipliers = [1.0, 1.0, 1.0]
token_multipliers == <<1, 1, 1>>

base_tokens == Min(settings.max_generation_tokens, TokenCeiling)

\* current_max_tokens of an attempt
current_max_tokens(a) ==
  base_tokens * token_multipliers[Min(a, Len(token_multipliers) - 1) + 1]

\* Document(type=doc_type, title=config["title"], content=..., folder=...,
\* filename=..., word_count=...)
Document(t, content, word_count) ==
  [type |-> t,
   title |-> DOCUMENT_CONFIG[t].title,
   content |-> content,
   folder |-> DOCUMENT_CONFIG[t].folder,
   filename |-> DOCUMENT_CONFIG[t].filename,
   word_count |-> word_count]

\* f"# {config['title']}\n\n*Error generating document: {last_error!s}*"
ErrorPrefix(t) ==
  <<"#", " ">> \o DOCUMENT_CONFIG[t].title
    \o <<"\n", "\n", "*", "E", "r", "r", "o", "r", " ", "g", "e", "n", "e", "r",
         "a", "t", "i", "n", "g", " ", "d", "o", "c", "u", "m", "e", "n", "t", ":",
         " ">>

ErrorPlaceholder(t, error) == ErrorPrefix(t) \o error \o <<"*">>

\* a final attempt that is still truncated gets the error placeholder
AttemptDocumentMarked(t, content) ==
  IF _is_content_truncated(content)
  THEN Document(t, ErrorPlaceholder(t, <<"t", "r", "u", "n", "c", "a", "t", "e", "d">>),
                0)
  ELSE Document(t, content, WordCount(content))

\* the Document of the "Success or final attempt" return
AttemptDocument(t, content) == Document(t, content, WordCount(content))

\* the partial content is dropped: the placeholder whenever the last attempt raised
FailureDocumentPlaceholderOnly(t, content, error) ==
  Document(t, ErrorPlaceholder(t, error), 0)

\* the Document returned after the loop, when the last attempt raised
FailureDocument(t, content, error) ==
  IF content # <<>>
  THEN Document(t, content, WordCount(content))
  ELSE Document(t, ErrorPlaceholder(t, error), 0)

\* the retry test off by one: if attempt <= max_retries
RetriesRemainOffByOne(a, m) == a <= m

\* if attempt < max_retries: another attempt follows
RetriesRemain(a, m) == a < m

\* the documents of the current batch are left out of the context
BatchContextWithoutBatch(prev, docs) == prev

\* previous_docs + documents, the list generate_batch passes on
BatchContext(prev, docs) == prev \o docs

\* _get_previous_context: "for doc in docs[-3:]", the documents it looks at
ContextWindow == 3

\* _get_previous_context: the length an excerpt is cut to, doc.content[:500]
ExcerptLength == 500

\* doc.content[:500] + "..." if len(doc.content) > 500 else doc.content
Excerpt(content) ==
  IF Len(content) > ExcerptLength
  THEN SubSeq(content, 1, ExcerptLength) \o <<".", ".", ".">>
  ELSE content

\* docs[-3:]
LastDocs(docs) ==
  IF Len(docs) <= ContextWindow THEN docs
  ELSE SubSeq(docs, Len(docs) - ContextWindow + 1, Len(docs))

\* every document of the list is given a part of the context
PreviousContextOfAll(docs) ==
  [i \in 1..Len(docs) |->
     [title |-> docs[i].title, excerpt |-> Excerpt(docs[i].content)]]

\* _get_previous_context: the parts "**title:**\nexcerpt" of the context, one
\* for each of the last documents; none stands for "No previous documents."
_get_previous_context(docs) ==
  [i \in 1..Len(LastDocs(docs)) |->
     [title |-> LastDocs(docs)[i].title,
      excerpt |-> Excerpt(LastDocs(docs)[i].content)]]

\* the call is started and not awaited: the loop goes on at once
FireAndForget == "attempt"

\* where the coroutine stands once client.generate() is called: suspended in
\* the await until the call completes
AwaitGenerate == "awaiting"

RECURSIVE SumWordCount(_)
SumWordCount(docs) ==
  IF docs = <<>> THEN 0 ELSE Head(docs).word_count + SumWordCount(Tail(docs))

\* the word counts of the last batch only are summed
GeneratedProjectLastBatch(docs) ==
  [documents |-> docs, total_word_count |-> SumWordCount(documents)]

\* GeneratedProject(documents=all_documents, total_word_count=sum(...))
GeneratedProject(docs) ==
  [documents |-> docs, total_word_count |-> SumWordCount(docs)]

\* the content of the most recent attempt that returned, <<>> if none did
RECURSIVE LastReturned(_)
LastReturned(outs) ==
  IF outs = <<>> THEN <<>>
  ELSE IF outs[Len(outs)].kind = "returned" THEN outs[Len(outs)].content
  ELSE LastReturned(SubSeq(outs, 1, Len(outs) - 1))

\* how a document came about, from what its attempts got: "clean" (the last
\* attempt returned content that is not truncated), "truncated" (it returned
\* truncated content), "partial" (it raised, after non-empty content had been
\* returned), "failed" (it raised, and no content was held)
Classify(outs) ==
  LET last == outs[Len(outs)]
  IN  IF last.kind = "returned"
      THEN IF _is_content_truncated(last.content) THEN "truncated" ELSE "clean"
      ELSE IF LastReturned(outs) # <<>> THEN "partial"
      ELSE "failed"

\* generate_document returns d
ReturnDocument(d, outs) ==
  /\ doc' = <<d>>
  /\ generated' = Append(generated, d)
  /\ how' = Append(how, Classify(outs))
  /\ pc' = "document_returned"
  /\ outcomes' = outs
  /\ attempt' = 0
  /\ last_content' = <<>>
  /\ last_error' = NoneStr
  /\ UNCHANGED <<doc_type, previous_docs, max_retries>>

\* generate_all is called
generate_all ==
  /\ pc = "idle"
  /\ all_documents' = <<>>
  /\ batch_i' = 1
  /\ pc' = "batches"
  /\ UNCHANGED <<settings, _client, batch_previous_docs, type_i, documents, doc_type,
                 previous_docs, max_retries, attempt, last_content, last_error,
                 in_flight, doc, result, raised, outcomes, generated, how, n_calls,
                 doc_calls, faulty_docs>>
  /\ UNCHANGED is_available
  /\ GeneratorStep

\* generate_all: for batch in DOCUMENT_BATCHES, the call of generate_batch
generate_batch ==
  /\ pc = "batches"
  /\ batch_i <= Len(DOCUMENT_BATCHES)
  /\ batch_previous_docs' = all_documents
  /\ documents' = <<>>
  /\ type_i' = 1
  /\ pc' = "batch"
  /\ UNCHANGED <<settings, _client, batch_i, all_documents, doc_type, previous_docs,
                 max_retries, attempt, last_content, last_error, in_flight, doc,
                 result, raised, outcomes, generated, how, n_calls, doc_calls,
                 faulty_docs>>
  /\ UNCHANGED is_available
  /\ GeneratorStep

\* generate_all: the loop is over, the GeneratedProject is returned
ReturnProject ==
  /\ pc = "batches"
  /\ batch_i > Len(DOCUMENT_BATCHES)
  /\ result' = <<GeneratedProject(all_documents)>>
  /\ pc' = "returned"
  /\ UNCHANGED <<settings, _client, batch_i, all_documents, batch_previous_docs,
                 type_i, documents, doc_type, previous_docs, max_retries, attempt,
                 last_content, last_error, in_flight, doc, raised, outcomes,
                 generated, how, n_calls, doc_calls, faulty_docs>>
  /\ UNCHANGED is_available
  /\ GeneratorStep

\* generate_batch: for doc_type in batch.document_types, the call of
\* generate_document
generate_document ==
  /\ pc = "batch"
  /\ type_i <= Len(DOCUMENT_BATCHES[batch_i].document_types)
  /\ doc_type' = DOCUMENT_BATCHES[batch_i].document_types[type_i]
  /\ previous_docs' = BatchContext(batch_previous_docs, documents)
  /\ max_retries' = DefaultMaxRetries
  /\ attempt' = 0
  /\ last_content' = <<>>
  /\ last_error' = NoneStr
  /\ doc' = <<>>
  /\ outcomes' = <<>>
  /\ doc_calls' = 0
  /\ pc' = "get_client"
  /\ UNCHANGED <<settings, _client, batch_i, all_documents, batch_previous_docs,
                 type_i, documents, in_flight, result, raised, generated, how,
                 n_calls, faulty_docs>>
  /\ UNCHANGED is_available
  /\ GeneratorStep

\* generate_batch: documents.append(doc)
AppendDocument ==
  /\ pc = "document_returned"
  /\ documents' = Append(documents, doc[1])
  /\ type_i' = type_i + 1
  /\ pc' = "batch"
  /\ NoFrame
  /\ doc' = <<>>
  /\ outcomes' = <<>>
  /\ doc_calls' = 0
  /\ UNCHANGED <<settings, _client, batch_i, all_documents, batch_previous_docs,
                 in_flight, result, raised, generated, how, n_calls, faulty_docs>>
  /\ UNCHANGED is_available
  /\ GeneratorStep

\* generate_batch returns, and generate_all extends all_documents
ReturnBatch ==
  /\ pc = "batch"
  /\ type_i > Len(DOCUMENT_BATCHES[batch_i].document_types)
  /\ all_documents' = all_documents \o documents
  /\ batch_i' = batch_i + 1
  /\ batch_previous_docs' = <<>>
  /\ documents' = <<>>
  /\ type_i' = 0
  /\ pc' = "batches"
  /\ UNCHANGED <<settings, _client, doc_type, previous_docs, max_retries, attempt,
                 last_content, last_error, in_flight, doc, result, raised, outcomes,
                 generated, how, n_calls, doc_calls, faulty_docs>>
  /\ UNCHANGED is_available
  /\ GeneratorStep

\* generate_document: client = await self._get_client(), with a client cached
\* or the default provider configured; then the prompt is built
_get_client ==
  /\ pc = "get_client"
  /\ \/ _client # "None" /\ UNCHANGED _client
     \/ /\ _client = "None"
        /\ settings.generation_provider # "llamacpp"
        /\ _client' = ClaudeGenerationClient(settings)
  /\ pc' = "attempt"
  /\ UNCHANGED <<settings, batch_i, all_documents, batch_previous_docs, type_i,
                 documents, doc_type, previous_docs, max_retries, attempt,
                 last_content, last_error, in_flight, doc, result, raised, outcomes,
                 generated, how, n_calls, doc_calls, faulty_docs>>
  /\ UNCHANGED is_available
  /\ GeneratorStep

\* _get_client with no client cached and the provider "llamacpp":
\* get_generation_client awaits LlamaCPPClient.health_check
ProbeLlama ==
  /\ pc = "get_client"
  /\ _client = "None"
  /\ settings.generation_provider = "llamacpp"
  /\ pc' = "probing"
  /\ UNCHANGED <<settings, _client, batch_i, all_documents, batch_previous_docs,
                 type_i, documents, doc_type, previous_docs, max_retries, attempt,
                 last_content, last_error, in_flight, doc, result, raised, outcomes,
                 generated, how, n_calls, doc_calls, faulty_docs>>
  /\ UNCHANGED is_available
  /\ GeneratorStep

\* the probe answers: get_generation_client returns a client, or raises
\* RuntimeError, which leaves generate_document, generate_batch and generate_all
ProbeAnswered(health, models) ==
  /\ pc = "probing"
  /\ is_available' = IF LlamaHealthCheck(health, models) THEN "True" ELSE "False"
  /\ LET c == LlamaGenerationClient(settings, LlamaHealthCheck(health, models))
     IN  IF c = "RuntimeError"
         THEN /\ raised' = "RuntimeError"
              /\ pc' = "raised"
              /\ UNCHANGED _client
         ELSE /\ _client' = c
              /\ pc' = "attempt"
              /\ UNCHANGED raised
  /\ UNCHANGED <<settings, batch_i, all_documents, batch_previous_docs, type_i,
                 documents, doc_type, previous_docs, max_retries, attempt,
                 last_content, last_error, in_flight, doc, result, outcomes,
                 generated, how, n_calls, doc_calls, faulty_docs>>
  /\ probe' = HealthRequests(health, models)
  /\ GeneratorFrame

\* generate_document: content = await client.generate(prompt=prompt,
\* max_tokens=current_max_tokens, temperature=0.7), the call is issued
CallGenerate ==
  /\ pc = "attempt"
  /\ in_flight' = in_flight \cup
       {[id |-> n_calls + 1, client |-> _client, doc_type |-> doc_type,
         max_tokens |-> current_max_tokens(attempt), temperature |-> "0.7"]}
  /\ n_calls' = n_calls + 1
  /\ doc_calls' = doc_calls + 1
  /\ pc' = AwaitGenerate
  /\ UNCHANGED <<settings, _client, batch_i, all_documents, batch_previous_docs,
                 type_i, documents, doc_type, previous_docs, max_retries, attempt,
                 last_content, last_error, doc, result, raised, outcomes, generated,
                 how, faulty_docs>>
  /\ UNCHANGED is_available
  /\ GeneratorStep

\* a document counts as faulty from its first raise or truncation on
NoteFault == faulty_docs' = IF outcomes = <<>> THEN faulty_docs + 1 ELSE faulty_docs

\* the first fault of a further document is still within the bound
MayFault == outcomes # <<>> \/ faulty_docs < MaxFaultyDocs

\* client.generate() returns content: truncation check, retry or return
GenerateReturns(call, content) ==
  /\ pc = "awaiting"
  /\ call \in in_flight
  /\ in_flight' = in_flight \ {call}
  /\ LET outs == Append(outcomes, [kind |-> "returned", content |-> content])
     IN  IF _is_content_truncated(content) /\ RetriesRemain(attempt, max_retries)
         THEN /\ last_content' = content
              /\ attempt' = attempt + 1
              /\ outcomes' = outs
              /\ pc' = "attempt"
              /\ UNCHANGED <<doc, generated, how, last_error, doc_type,
                             previous_docs, max_retries>>
         ELSE ReturnDocument(AttemptDocument(doc_type, content), outs)
  /\ IF _is_content_truncated(content) THEN NoteFault ELSE UNCHANGED faulty_docs
  /\ UNCHANGED <<settings, _client, batch_i, all_documents, batch_previous_docs,
                 type_i, documents, result, raised, n_calls, doc_calls>>
  /\ UNCHANGED is_available
  /\ GeneratorStep

\* client.generate() raises: retry, or leave the loop and return the partial
\* content or the error placeholder
GenerateRaises(call, error) ==
  /\ pc = "awaiting"
  /\ call \in in_flight
  /\ in_flight' = in_flight \ {call}
  /\ LET outs == Append(outcomes, [kind |-> "raised", error |-> error])
     IN  IF RetriesRemain(attempt, max_retries)
         THEN /\ last_error' = error
              /\ attempt' = attempt + 1
              /\ outcomes' = outs
              /\ pc' = "attempt"
              /\ UNCHANGED <<doc, generated, how, last_content, doc_type,
                             previous_docs, max_retries>>
         ELSE ReturnDocument(FailureDocument(doc_type, last_content, error), outs)
  /\ NoteFault
  /\ UNCHANGED <<settings, _client, batch_i, all_documents, batch_previous_docs,
                 type_i, documents, result, raised, n_calls, doc_calls>>
  /\ UNCHANGED is_available
  /\ GeneratorStep

\* ----------------------------------------- llm_client.py: FallbackClient

\* a generate() call that has not been made yet
IdleCall ==
  [pc |-> "idle", prompt |-> "None", max_tokens |-> 0, temperature |-> "None",
   primary_error |-> "None", secondary |-> "None", result |-> <<>>]

\* the text a backend generates for a request
Output(backend, prompt, max_tokens, temperature) ==
  <<backend, prompt, max_tokens, temperature>>

\* if self.settings.claude_fallback_to_llamacpp
FallbackEnabled(s) == s.claude_fallback_to_llamacpp

\* llama.generate(prompt): max_tokens and temperature fall back to the defaults
SecondaryRequestDefaults(c, call) ==
  [call |-> c, prompt |-> call.prompt, max_tokens |-> 4096, temperature |-> "0.7"]

\* the arguments of llama.generate(prompt, max_tokens, temperature)
SecondaryRequest(c, call) ==
  [call |-> c, prompt |-> call.prompt, max_tokens |-> call.max_tokens,
   temperature |-> call.temperature]

\* return self._llama_client: the cached probe result is not consulted
LlamaOrNoneIgnoringProbe(client, available) == client

\* return self._llama_client if self._llama_available else None
LlamaOrNone(client, available) == IF available = "True" THEN client ELSE "None"

\* what follows _get_llama_client in generate(): llama.generate is called with
\* the arguments of the call, or the exception of the primary is raised again
FallBackOrReraise(c, call, llama) ==
  IF llama # "None"
  THEN /\ fb' = [fb EXCEPT ![c] = [call EXCEPT !.pc = "secondary"]]
       /\ llama_requests' = llama_requests \cup {SecondaryRequest(c, call)}
  ELSE /\ fb' = [fb EXCEPT ![c] = [call EXCEPT !.pc = "done",
                                               !.result =
                                                 <<"raised", call.primary_error>>]]
       /\ UNCHANGED llama_requests

\* FallbackClient.generate(prompt, max_tokens, temperature) is called and
\* awaits self.claude_client.generate
FallbackGenerate(c, prompt, max_tokens, temperature) ==
  /\ fb[c].pc = "idle"
  /\ fb' = [fb EXCEPT ![c] = [IdleCall EXCEPT !.pc = "primary", !.prompt = prompt,
                                !.max_tokens = max_tokens,
                                !.temperature = temperature]]
  /\ claude_requests' = claude_requests \cup
       {[call |-> c, prompt |-> prompt, max_tokens |-> max_tokens,
         temperature |-> temperature]}
  /\ UNCHANGED <<_llama_client, _llama_available, llama_requests, health_checks>>
  /\ FallbackStep

\* the primary returns its text, which generate() returns
PrimaryReturns(c) ==
  /\ fb[c].pc = "primary"
  /\ fb' = [fb EXCEPT ![c].pc = "done",
                      ![c].result =
                        <<"returned", Output("claude", fb[c].prompt, fb[c].max_tokens,
                                             fb[c].temperature)>>]
  /\ UNCHANGED <<_llama_client, _llama_available, claude_requests, llama_requests,
                 health_checks>>
  /\ FallbackStep

\* the primary raises: with fallback disabled the exception is raised again;
\* with fallback enabled _get_llama_client either constructs the Llama client
\* and awaits its health_check, or answers from the cached probe result
PrimaryRaises(c, error) ==
  /\ fb[c].pc = "primary"
  /\ IF ~FallbackEnabled(settings)
     THEN /\ fb' = [fb EXCEPT ![c].pc = "done", ![c].primary_error = error,
                              ![c].result = <<"raised", error>>]
          /\ UNCHANGED <<_llama_client, _llama_available, llama_requests,
                         health_checks>>
     ELSE IF _llama_client = "None"
     THEN /\ _llama_client' = "LlamaCPPClient"
          /\ health_checks' = health_checks + 1
          /\ fb' = [fb EXCEPT ![c].pc = "health", ![c].primary_error = error]
          /\ UNCHANGED <<_llama_available, llama_requests>>
     ELSE /\ FallBackOrReraise(c, [fb[c] EXCEPT !.primary_error = error],
                               LlamaOrNone(_llama_client, _llama_available))
          /\ UNCHANGED <<_llama_client, _llama_available, health_checks>>
  /\ UNCHANGED claude_requests
  /\ FallbackStep

\* the health check of _get_llama_client answers: the result is cached, and
\* generate() goes on with the Llama client or with None
HealthAnswered(c, health, models) ==
  /\ fb[c].pc = "health"
  /\ LET available == IF LlamaHealthCheck(health, models) THEN "True" ELSE "False"
     IN  /\ _llama_available' = available
         /\ FallBackOrReraise(c, fb[c], LlamaOrNone(_llama_client, available))
  /\ UNCHANGED <<_llama_client, claude_requests, health_checks>>
  /\ probe' = HealthRequests(health, models)
  /\ FallbackFrame

\* llama.generate returns its text, which generate() returns
SecondaryReturns(c) ==
  /\ fb[c].pc = "secondary"
  /\ \E r \in llama_requests :
       /\ r.call = c
       /\ fb' = [fb EXCEPT ![c].pc = "done", ![c].secondary = "returned",
                           ![c].result =
                             <<"returned", Output("llama", r.prompt, r.max_tokens,
                                                  r.temperature)>>]
  /\ UNCHANGED <<_llama_client, _llama_available, claude_requests, llama_requests,
                 health_checks>>
  /\ FallbackStep

\* llama.generate raises, and that exception leaves generate()
SecondaryRaises(c, error) ==
  /\ fb[c].pc = "secondary"
  /\ fb' = [fb EXCEPT ![c].pc = "done", ![c].secondary = "raised",
                      ![c].result = <<"raised", error>>]
  /\ UNCHANGED <<_llama_client, _llama_available, claude_requests, llama_requests,
                 health_checks>>
  /\ FallbackStep

\* ------------------------------------------------------------ research.py

\* the bullet character U+2022
Bullet == "U+2022"

\* str.upper() on one character
Upper(c) ==
  LET lower == <<"a", "b", "c", "d", "e", "f", "g", "h", "i", "j", "k", "l", "m", "n", "o", "p", "q", "r", "s", "t", "u", "v", "w", "x", "y", "z">>
      upper == <<"A", "B", "C", "D", "E", "F", "G", "H", "I", "J", "K", "L", "M", "N", "O", "P", "Q", "R", "S", "T", "U", "V", "W", "X", "Y", "Z">>
  IN  IF \E i \in 1..26 : lower[i] = c
      THEN upper[CHOOSE i \in 1..26 : lower[i] = c]
      ELSE c

\* line.upper()
UpperCase(s) == [i \in 1..Len(s) |-> Upper(s[i])]

\* p in s
Contains(s, p) == Count(s, p) > 0

\* line.lstrip("-<bullet>* ")
RECURSIVE LStripBullets(_)
LStripBullets(s) ==
  IF s = <<>> THEN s
  ELSE IF Head(s) \in {"-", Bullet, "*", " "} THEN LStripBullets(Tail(s)) ELSE s

\* _parse_response: raw_text, the texts of the blocks that have one
RECURSIVE RawText(_)
RawText(response) ==
  IF response = <<>> THEN <<>>
  ELSE (IF Head(response).kind = "text" THEN Head(response).text ELSE <<>>)
         \o RawText(Tail(response))

\* _parse_response: the section a header line opens, "None" for any other line
SectionHeader(line) ==
  LET upper_line == UpperCase(line)
  IN  IF Contains(upper_line, <<"K", "E", "Y", " ", "F", "I", "N", "D", "I", "N", "G", "S">>) \/ Contains(upper_line, <<"F", "I", "N", "D", "I", "N", "G", "S", ":">>)
      THEN "findings"
      ELSE IF Contains(upper_line, <<"S", "O", "U", "R", "C", "E", "S", ":">>) \/ Contains(upper_line, <<"R", "E", "F", "E", "R", "E", "N", "C", "E", "S", ":">>)
      THEN "sources"
      ELSE IF Contains(upper_line, <<"R", "E", "C", "O", "M", "M", "E", "N", "D", "A", "T", "I", "O", "N", "S", ":">>) THEN "recommendations"
      ELSE "None"

\* _parse_response: the loop over the stripped non-empty lines
RECURSIVE ParseLines(_, _, _)
ParseLines(lines, current_section, lists) ==
  IF lines = <<>> THEN lists
  ELSE LET line == Head(lines)
           rest == Tail(lines)
       IN  IF SectionHeader(line) # "None"
           THEN ParseLines(rest, SectionHeader(line), lists)
           ELSE IF Head(line) \in {"-", Bullet, "*"} /\ current_section # "None"
           THEN ParseLines(rest, current_section,
                           [lists EXCEPT ![current_section] =
                              Append(@, Strip(LStripBullets(line)))])
           ELSE ParseLines(rest, current_section, lists)

\* AgentResult; raw_response is <<the text>>, <<>> for None
AgentResult(agent_id, findings, sources, recommendations, raw_response) ==
  [agent_id |-> agent_id, findings |-> findings, sources |-> sources,
   recommendations |-> recommendations, raw_response |-> raw_response]

NoFindings == 
  <<"N", "o", " ", "s", "p", "e", "c", "i", "f", "i", "c", " ", "f", "i", "n", "d",
    "i", "n", "g", "s", " ", "e", "x", "t", "r", "a", "c", "t", "e", "d">>

\* ResearchEngine._parse_response
_parse_response(agent, response) ==
  LET raw_text == RawText(response)
      lists == ParseLines(StripNonEmpty(SplitLines(raw_text, <<>>)), "None",
                          [findings |-> <<>>, sources |-> <<>>,
                           recommendations |-> <<>>])
  IN  AgentResult(agent.id,
                  IF lists.findings # <<>> THEN lists.findings ELSE <<NoFindings>>,
                  lists.sources, lists.recommendations, <<raw_text>>)

ResearchErrorPrefix == 
  <<"E", "r", "r", "o", "r", " ", "d", "u", "r", "i", "n", "g", " ", "r", "e", "s",
    "e", "a", "r", "c", "h", ":", " ">>

ExecutionFailedPrefix == 
  <<"A", "g", "e", "n", "t", " ", "e", "x", "e", "c", "u", "t", "i", "o", "n", " ",
    "f", "a", "i", "l", "e", "d", ":", " ">>

\* the error result without its explanatory finding
ResearchErrorSilent(agent, error) == AgentResult(agent.id, <<>>, <<>>, <<>>, <<>>)

\* execute_agent: the AgentResult returned when the provider call raised
ResearchError(agent, error) ==
  AgentResult(agent.id, <<ResearchErrorPrefix \o error>>, <<>>, <<>>, <<>>)

\* execute_all: the AgentResult that stands for a task that raised
ExecutionFailed(agent, error) ==
  AgentResult(agent.id, <<ExecutionFailedPrefix \o error>>, <<>>, <<>>, <<>>)

\* what str(e) gives for the RuntimeError of _ensure_client
NotInstalled == 
  <<"a", "n", "t", "h", "r", "o", "p", "i", "c", " ", "p", "a", "c", "k", "a", "g",
    "e", " ", "n", "o", "t", " ", "i", "n", "s", "t", "a", "l", "l", "e", "d">>

\* a task that raised is left out of the list
FinalResultsWithoutFailures(ags, results) ==
  LET F[i \in 0..Len(results)] ==
        IF i = 0 THEN <<>>
        ELSE IF results[i][1] = "exception" THEN F[i - 1]
        ELSE Append(F[i - 1], results[i][2])
  IN  F[Len(results)]

\* execute_all: exceptions among the gathered results become error results,
\* position by position
FinalResults(ags, results) ==
  [i \in 1..Len(results) |->
     IF results[i][1] = "exception" THEN ExecutionFailed(ags[i], results[i][2])
     ELSE results[i][2]]

\* the permit is not given back
ReleaseNothing(value) == value

\* Semaphore.release(), at the exit of "async with semaphore"
Release(value) == value + 1

\* the tasks are indexed as the agents are
Tasks == 1..Len(agents)

\* the tasks are scheduled last to first
GatherOrderReversed(n) == [i \in 1..n |-> n + 1 - i]

\* tasks = [bounded_execute(agent) for agent in agents]; gather(*tasks): the
\* tasks are scheduled on the event loop in the order of the list
GatherOrder(n) == [i \in 1..n |-> i]

\* asyncio.gather(*tasks): a task per agent, scheduled in the order of the list,
\* and execute_all suspends until all of them are done
execute_all ==
  /\ ea_pc = "idle"
  /\ sem_value' = max_concurrent_agents
  /\ sem_waiters' = <<>>
  /\ task' = [i \in Tasks |-> [pc |-> "pending", result |-> <<>>]]
  /\ ready' = GatherOrder(Len(agents))
  /\ ea_pc' = "gather"
  /\ UNCHANGED <<agents, max_concurrent_agents, anthropic_ok, research_client,
                 running, final_results, received, started>>
  /\ ResearchStep

\* the event loop runs the task at the head of its queue: bounded_execute
\* enters "async with semaphore", which takes a permit and goes on into
\* execute_agent without suspending, or suspends the task when none is free;
\* a task woken by a release goes on with the permit handed to it
bounded_execute(i) ==
  /\ ea_pc = "gather"
  /\ running = 0
  /\ ready # <<>>
  /\ i = Head(ready)
  /\ ready' = Tail(ready)
  /\ IF task[i].pc = "pending" /\ sem_value = 0
     THEN /\ task' = [task EXCEPT ![i].pc = "waiting"]
          /\ sem_waiters' = Append(sem_waiters, i)
          /\ UNCHANGED <<running, sem_value, started>>
     ELSE /\ task' = [task EXCEPT ![i].pc = "execute_agent"]
          /\ sem_value' = IF task[i].pc = "pending" THEN sem_value - 1 ELSE sem_value
          /\ running' = i
          /\ started' = Append(started, i)
          /\ UNCHANGED sem_waiters
  /\ UNCHANGED <<agents, max_concurrent_agents, anthropic_ok, research_client,
                 ea_pc, final_results, received>>
  /\ ResearchStep

\* the task i ends with result r: "async with" gives the permit back, to the
\* first waiter if there is one, and the event loop is free again
TaskDone(i, r) ==
  /\ task' = [j \in Tasks |->
                IF j = i THEN [pc |-> "done", result |-> r]
                ELSE IF sem_waiters # <<>> /\ j = Head(sem_waiters)
                THEN [task[j] EXCEPT !.pc = "woken"]
                ELSE task[j]]
  /\ IF sem_waiters # <<>>
     THEN /\ sem_waiters' = Tail(sem_waiters)
          /\ ready' = Append(ready, Head(sem_waiters))
          /\ sem_value' = Release(sem_value) - 1
     ELSE /\ sem_value' = Release(sem_value)
          /\ UNCHANGED <<sem_waiters, ready>>
  /\ running' = 0

\* execute_agent: client = self._ensure_client(), outside the try: the
\* RuntimeError of a failed construction leaves execute_agent; otherwise the
\* prompt is built and client.messages.create(...) is called, a synchronous
\* call during which the task keeps the event loop thread
_ensure_client(i) ==
  /\ ea_pc = "gather"
  /\ task[i].pc = "execute_agent"
  /\ running = i
  /\ IF research_client = "None" /\ ~anthropic_ok
     THEN /\ TaskDone(i, <<"exception", NotInstalled>>)
          /\ UNCHANGED research_client
     ELSE /\ research_client' = "Anthropic"
          /\ task' = [task EXCEPT ![i].pc = "provider_call"]
          /\ UNCHANGED <<sem_value, sem_waiters, ready, running>>
  /\ UNCHANGED <<agents, max_concurrent_agents, anthropic_ok, ea_pc, final_results,
                 received, started>>
  /\ ResearchStep

\* client.messages.create returns: execute_agent returns the parsed response
MessagesCreateReturns(i, response) ==
  /\ ea_pc = "gather"
  /\ task[i].pc = "provider_call"
  /\ running = i
  /\ TaskDone(i, <<"result", _parse_response(agents[i], response)>>)
  /\ received' = [received EXCEPT ![i] = <<"returned", response>>]
  /\ UNCHANGED <<agents, max_concurrent_agents, anthropic_ok, research_client,
                 ea_pc, final_results, started>>
  /\ ResearchStep

\* client.messages.create raises: execute_agent returns the error result
MessagesCreateRaises(i, error) ==
  /\ ea_pc = "gather"
  /\ task[i].pc = "provider_call"
  /\ running = i
  /\ TaskDone(i, <<"result", ResearchError(agents[i], error)>>)
  /\ received' = [received EXCEPT ![i] = <<"raised", error>>]
  /\ UNCHANGED <<agents, max_concurrent_agents, anthropic_ok, research_client,
                 ea_pc, final_results, started>>
  /\ ResearchStep

\* every task is done: gather gives the results in the order of the tasks, and
\* execute_all returns final_results
ReturnResults ==
  /\ ea_pc = "gather"
  /\ running = 0
  /\ \A i \in Tasks : task[i].pc = "done"
  /\ final_results' = <<FinalResults(agents, [i \in Tasks |-> task[i].result])>>
  /\ ea_pc' = "returned"
  /\ UNCHANGED <<agents, max_concurrent_agents, anthropic_ok, research_client,
                 sem_value, sem_waiters, ready, running, task, received, started>>
  /\ ResearchStep

\* ------------------------ llm_client.py: ClaudeClient and LlamaCPPClient

\* every bare client sends its requests to the hosted backend
BackendOfHostedOnly(client) == "claude"

\* the backend that serves the generate() of a bare client
BackendOf(client) == IF client = "LlamaCPPClient" THEN "llama" ELSE "claude"

\* generate(prompt, max_tokens, temperature) is called on the bare client that
\* get_generation_client returned, and awaits the request to its own backend
BareGenerate(c, prompt, max_tokens, temperature) ==
  /\ _client \in {"ClaudeClient", "LlamaCPPClient"}
  /\ fb[c].pc = "idle"
  /\ fb' = [fb EXCEPT ![c] = [IdleCall EXCEPT !.pc = "bare", !.prompt = prompt,
                                !.max_tokens = max_tokens,
                                !.temperature = temperature]]
  /\ LET request == [call |-> c, prompt |-> prompt, max_tokens |-> max_tokens,
                     temperature |-> temperature]
     IN  IF BackendOf(_client) = "claude"
         THEN /\ claude_requests' = claude_requests \cup {request}
              /\ UNCHANGED llama_requests
         ELSE /\ llama_requests' = llama_requests \cup {request}
              /\ UNCHANGED claude_requests
  /\ UNCHANGED <<_llama_client, _llama_available, health_checks>>
  /\ FallbackStep

\* the backend answers, and generate() returns its text
BareReturns(c) ==
  /\ fb[c].pc = "bare"
  /\ fb' = [fb EXCEPT ![c].pc = "done",
                      ![c].result =
                        <<"returned", Output(BackendOf(_client), fb[c].prompt,
                                             fb[c].max_tokens, fb[c].temperature)>>]
  /\ UNCHANGED <<_llama_client, _llama_available, claude_requests, llama_requests,
                 health_checks>>
  /\ FallbackStep

\* the request raises, and the exception leaves generate(): neither client
\* holds another backend to turn to
BareRaises(c, error) ==
  /\ fb[c].pc = "bare"
  /\ fb' = [fb EXCEPT ![c].pc = "done", ![c].primary_error = error,
                      ![c].result = <<"raised", error>>]
  /\ UNCHANGED <<_llama_client, _llama_available, claude_requests, llama_requests,
                 health_checks>>
  /\ FallbackStep

\* ------------------------------------------------ privacy layer, pipeline

\* The texts of a project are sequences of words in this part: a word stands
\* for a span of characters, a flag names the position of the word it covers.
EmailWord == "jane@clinic.org"

SsnWord == "123-45-6789"

\* words no pattern matches; each is a keyword of one domain
PlainWords == {"clinic", "school"}

ProjectWords == PlainWords \cup {EmailWord, SsnWord}

\* the longest description the model enumerates, in words
MaxDescriptionWords == 2

\* the sequences over S of length lo..hi
WordSeqs(S, lo, hi) == UNION {[1..n -> S] : n \in lo..hi}

\* a ProjectInput: name and description are required, additional_context is
\* None (the empty sequence here) by default
ProjectInputs ==
  [name : WordSeqs(ProjectWords, 1, 1),
   description : WordSeqs(ProjectWords, 1, MaxDescriptionWords),
   additional_context : WordSeqs(ProjectWords, 0, 1)]

\* f"{name} {description} {additional_context or ''}"
FullText(p) == p.name \o p.description \o p.additional_context

\* _fallback_scan: one flag for each match of email_pattern and of ssn_pattern
_fallback_scan(text) ==
  {[data_type |-> "EMAIL_ADDRESS", start |-> i] :
      i \in {j \in 1..Len(text) : text[j] = EmailWord}}
  \cup {[data_type |-> "US_SSN", start |-> i] :
      i \in {j \in 1..Len(text) : text[j] = SsnWord}}

\* f"[{flag.data_type.value}]"
Placeholder(flag) ==
  IF flag.data_type = "EMAIL_ADDRESS" THEN "[EMAIL_ADDRESS]" ELSE "[US_SSN]"

\* the loop of _sanitize over the flags sorted by start, last one first
RECURSIVE ReplaceFlags(_, _)
ReplaceFlags(sanitized, flags) ==
  IF flags = {} THEN sanitized
  ELSE LET flag == CHOOSE f \in flags : \A g \in flags : g.start <= f.start
       IN ReplaceFlags(SubSeq(sanitized, 1, flag.start - 1) \o <<Placeholder(flag)>>
                         \o SubSeq(sanitized, flag.start + 1, Len(sanitized)),
                       flags \ {flag})

\* PrivacyLayer._sanitize
_sanitize(text, flags) == IF flags = {} THEN text ELSE ReplaceFlags(text, flags)

\* PrivacyLayer.scan, with the pattern matching detector
scan(text) ==
  LET flags == _fallback_scan(text)
  IN [original_text |-> text, flags |-> flags,
      sanitized_text |-> _sanitize(text, flags),
      requires_approval |-> flags # {}]

\* DOMAIN_MAPPINGS, two of its domains with one keyword and their two agent
\* templates each
DOMAIN_MAPPINGS ==
  << [domain |-> "healthcare", keywords |-> {"clinic"},
      agent_templates |->
        << [role |-> "Healthcare Compliance Researcher", focus |-> "HIPAA"],
           [role |-> "Healthcare Best Practices Analyst", focus |-> "Clinical workflows"] >>],
     [domain |-> "education", keywords |-> {"school"},
      agent_templates |->
        << [role |-> "Education Policy Researcher", focus |-> "FERPA"],
           [role |-> "Educational Best Practices Analyst", focus |-> "Curriculum design"] >>] >>

\* analyze_project: the domains with a keyword in the text of the project, in
\* the order of the mappings (one keyword each gives them the same confidence,
\* and the sort is stable)
analyze_project(p) ==
  LET text == FullText(p)
      Matched(d) == \E i \in 1..Len(text) : text[i] \in d.keywords
  IN SelectSeq(DOMAIN_MAPPINGS, Matched)

\* _generate_search_queries: the third query carries project.name
_generate_search_queries(p, match, template) ==
  <<match.domain, template.focus, "best practices 2024">>
  \o <<match.domain, "compliance requirements">>
  \o p.name \o <<match.domain, "regulations">>

\* f"agent_{agent_counter:03d}"
AgentIdText(agent_counter) ==
  <<"agent_000", "agent_001", "agent_002", "agent_003", "agent_004",
    "agent_005">>[agent_counter + 1]

\* generate_agents: one agent for each template of each matched domain,
\* numbered from agent_counter on
RECURSIVE generate_agents(_, _, _)
generate_agents(p, domain_matches, agent_counter) ==
  IF domain_matches = <<>> THEN <<>>
  ELSE LET match == Head(domain_matches)
           n == Len(match.agent_templates)
       IN [t \in 1..n |->
             [id |-> AgentIdText(agent_counter + t - 1),
              role |-> match.agent_templates[t].role,
              search_queries |->
                _generate_search_queries(p, match, match.agent_templates[t]),
              priority |-> agent_counter + t - 1]]
          \o generate_agents(p, Tail(domain_matches), agent_counter + n)

\* _create_documentation_framework_agent
FrameworkAgent ==
  [id |-> "agent_000_frameworks",
   role |-> "Senior Documentation Architect",
   search_queries |-> <<"nonprofit project documentation best practices 2024">>,
   priority |-> 1]

\* AgentDiscoveryService.discover: the frameworks agent is inserted first
discover(p) == <<FrameworkAgent>> \o generate_agents(p, analyze_project(p), 2)

\* _build_frameworks_research_prompt: the context and the queries are inserted
_build_frameworks_research_prompt(agent, project_context) ==
  <<"## Project Context (for relevance)">> \o project_context
  \o <<"## Suggested Search Queries">> \o agent.search_queries

\* _build_research_prompt: the context and the queries of the agent are inserted
_build_research_prompt(agent, project_context) ==
  IF agent.id = "agent_000_frameworks"
  THEN _build_frameworks_research_prompt(agent, project_context)
  ELSE <<"## Project Context">> \o project_context
       \o <<"## Suggested Search Queries">> \o agent.search_queries

\* _build_generic_prompt and the specialized builders: each inserts the name,
\* the description and, if there is one, the additional context of the project
\* it is given
_build_generation_prompt(p, document_type) ==
  <<"**Project Name:**">> \o p.name
  \o <<"**Project Description:**">> \o p.description
  \o (IF p.additional_context # <<>>
      THEN <<"**Additional Context:**">> \o p.additional_context
      ELSE <<>>)

\* the document types in the order generate_all generates them
RECURSIVE GenerationOrderFrom(_)
GenerationOrderFrom(b) ==
  IF b > Len(DOCUMENT_BATCHES) THEN <<>>
  ELSE DOCUMENT_BATCHES[b].document_types \o GenerationOrderFrom(b + 1)

GenerationOrder == GenerationOrderFrom(1)

\* run_generation_pipeline(project_id, settings, use_sanitized), up to the
\* research phase: the context is the sanitized text of a scan if use_sanitized,
\* the text itself otherwise; the agents are those the discovery stored
run_generation_pipeline(sanitized) ==
  /\ pl_pc = "idle"
  /\ entry' = "api"
  /\ use_sanitized' = sanitized
  /\ text_to_use' = IF sanitized THEN scan(FullText(project)).sanitized_text
                    ELSE FullText(project)
  /\ discovered_agents' = discover(project)
  /\ pl_pc' = "research"
  /\ UNCHANGED <<project, type_n, sent>>
  /\ PipelineStep

\* _generate_async, up to the research phase: the text is scanned, and the
\* sanitized text is used if there are flags, the review is not skipped and the
\* user proceeds
_generate_async(skip_privacy) ==
  /\ pl_pc = "idle"
  /\ entry' = "cli"
  /\ LET scan_result == scan(FullText(project))
         sanitized == scan_result.flags # {} /\ ~skip_privacy
     IN /\ use_sanitized' = sanitized
        /\ text_to_use' = IF sanitized THEN scan_result.sanitized_text
                          ELSE FullText(project)
  /\ discovered_agents' = discover(project)
  /\ pl_pc' = "research"
  /\ UNCHANGED <<project, type_n, sent>>
  /\ PipelineStep

\* Phase 1: execute_all(agents, text_to_use) builds and sends the research
\* prompt of every agent
PipelineResearch ==
  /\ pl_pc = "research"
  /\ sent' = sent \cup
       {[to |-> "research", about |-> discovered_agents[i].id,
         text |-> _build_research_prompt(discovered_agents[i], text_to_use)] :
          i \in 1..Len(discovered_agents)}
  /\ pl_pc' = "generate"
  /\ UNCHANGED <<entry, project, use_sanitized, discovered_agents, text_to_use, type_n>>
  /\ PipelineStep

\* Phase 2: generate_all(state.input, research_results) builds and sends the
\* prompt of the next document, from the project input it was given
PipelineGenerate ==
  /\ pl_pc = "generate"
  /\ type_n < Len(GenerationOrder)
  /\ sent' = sent \cup
       {[to |-> "generation", about |-> GenerationOrder[type_n + 1],
         text |-> _build_generation_prompt(project, GenerationOrder[type_n + 1])]}
  /\ type_n' = type_n + 1
  /\ UNCHANGED <<entry, project, use_sanitized, discovered_agents, text_to_use, pl_pc>>
  /\ PipelineStep

\* generate_all has returned
PipelineGenerated ==
  /\ pl_pc = "generate"
  /\ type_n = Len(GenerationOrder)
  /\ pl_pc' = "done"
  /\ UNCHANGED <<entry, project, use_sanitized, discovered_agents, text_to_use, type_n,
                 sent>>
  /\ PipelineStep

\* --------------------------------------------------------- specifications

\* no pure function is being called on its own
InitNoFunction ==
  /\ fn = "None"
  /\ fn_arg = <<>>
  /\ fn_result = <<>>

\* how many projects are created, and how many pipelines are added as
\* background tasks, in one behaviour
MaxProjects == 1
MaxTasks == 2

\* the ids a request names: uuid4 gives each created project a fresh id, the
\* k-th project is k here, and an id not yet given out names no project
ProjectIds == 1..MaxProjects

\* where a run_generation_pipeline task is: added and not yet started, at
\* one of its three awaits, or done
TaskPositions == {"added", "research", "generate", "output", "done"}

\* no pipeline has been added as a background task
NoTasks == [project_id \in ProjectIds |-> [position \in TaskPositions |-> 0]]

\* no request has been answered
NoResponse ==
  [handler |-> "None", project_id |-> 0, authenticated |-> FALSE,
   approved |-> FALSE, code |-> 0, detail |-> "None"]

\* the API serves no request
InitNoApi ==
  /\ project_states = <<>>
  /\ background_tasks = NoTasks
  /\ last_response = NoResponse
  /\ provider_calls = {}


\* no pipeline is in use
InitNoPipeline ==
  /\ entry = "None"
  /\ project = [name |-> <<>>, description |-> <<>>, additional_context |-> <<>>]
  /\ use_sanitized = FALSE
  /\ discovered_agents = <<>>
  /\ text_to_use = <<>>
  /\ pl_pc = "unused"
  /\ type_n = 0
  /\ sent = {}


\* no ResearchEngine is in use
InitNoResearch ==
  /\ agents = <<>>
  /\ max_concurrent_agents = 1
  /\ anthropic_ok = TRUE
  /\ research_client = "None"
  /\ sem_value = 0
  /\ sem_waiters = <<>>
  /\ ready = <<>>
  /\ running = 0
  /\ task = <<>>
  /\ ea_pc = "unused"
  /\ final_results = <<>>
  /\ received = <<>>
  /\ started = <<>>

\* FallbackClient.__init__
InitFallback ==
  /\ _llama_client = "None"
  /\ _llama_available = "None"
  /\ fb = [c \in Calls |-> IdleCall]
  /\ claude_requests = {}
  /\ llama_requests = {}
  /\ health_checks = 0
  /\ probe = <<>>

InitHistory ==
  /\ outcomes = <<>>
  /\ generated = <<>>
  /\ how = <<>>
  /\ n_calls = 0
  /\ doc_calls = 0
  /\ faulty_docs = 0

\* A DocumentGenerator has been constructed and generate_all is about to be called
Init ==
  /\ settings \in SettingsSpace({DefaultMaxGenerationTokens})
  /\ _client = "None"
  /\ is_available = "None"
  /\ pc = "idle"
  /\ batch_i = 0
  /\ all_documents = <<>>
  /\ batch_previous_docs = <<>>
  /\ type_i = 0
  /\ documents = <<>>
  /\ doc_type = "None"
  /\ previous_docs = <<>>
  /\ max_retries = 0
  /\ attempt = 0
  /\ last_content = <<>>
  /\ last_error = NoneStr
  /\ in_flight = {}
  /\ doc = <<>>
  /\ result = <<>>
  /\ raised = "None"
  /\ InitHistory
  /\ InitFallback
  /\ InitNoResearch
  /\ InitNoPipeline
  /\ InitNoApi
  /\ InitNoFunction

Next ==
  \/ generate_all
  \/ generate_batch
  \/ ReturnProject
  \/ generate_document
  \/ AppendDocument
  \/ ReturnBatch
  \/ _get_client
  \/ ProbeLlama
  \/ \E health \in ProbeAnswers, models \in ProbeAnswers : ProbeAnswered(health, models)
  \/ CallGenerate
  \/ \E call \in in_flight, content \in RunResponses :
       /\ _is_content_truncated(content) => MayFault
       /\ GenerateReturns(call, content)
  \/ \E call \in in_flight, error \in RunErrors :
       /\ MayFault
       /\ GenerateRaises(call, error)

\* A run of generate_all
Spec == Init /\ [][Next]_vars

\* the document during which the provider misbehaves in the runs explored for
\* termination: every sequence of outcomes of its calls is explored
LiveFaultyTypes == {"PROJECT_BRIEF"}

NextLive ==
  \/ generate_all
  \/ generate_batch
  \/ ReturnProject
  \/ generate_document
  \/ AppendDocument
  \/ ReturnBatch
  \/ _get_client
  \/ ProbeLlama
  \/ \E health \in ProbeAnswers, models \in ProbeAnswers : ProbeAnswered(health, models)
  \/ CallGenerate
  \/ \E call \in in_flight, content \in RunResponses :
       /\ _is_content_truncated(content) => doc_type \in LiveFaultyTypes
       /\ GenerateReturns(call, content)
  \/ \E call \in in_flight, error \in RunErrors :
       /\ doc_type \in LiveFaultyTypes
       /\ GenerateRaises(call, error)

\* A run of generate_all in which the program goes on whenever it can and every
\* provider call and probe that is under way eventually returns or raises
SpecLive == Init /\ [][NextLive]_vars /\ WF_vars(NextLive)

\* generate_document is called on its own, for any document type and any
\* max_retries, with no previous documents
InitDocument ==
  /\ settings \in SettingsSpace(MaxGenerationTokensValues)
  /\ _client = "None"
  /\ is_available = "None"
  /\ pc = "get_client"
  /\ batch_i = 0
  /\ all_documents = <<>>
  /\ batch_previous_docs = <<>>
  /\ type_i = 0
  /\ documents = <<>>
  /\ doc_type \in DocumentType
  /\ previous_docs = <<>>
  /\ max_retries \in 0..MaxRetriesArg
  /\ attempt = 0
  /\ last_content = <<>>
  /\ last_error = NoneStr
  /\ in_flight = {}
  /\ doc = <<>>
  /\ result = <<>>
  /\ raised = "None"
  /\ InitHistory
  /\ InitFallback
  /\ InitNoResearch
  /\ InitNoPipeline
  /\ InitNoApi
  /\ InitNoFunction

NextDocument ==
  \/ _get_client
  \/ ProbeLlama
  \/ \E health \in ProbeAnswers, models \in ProbeAnswers : ProbeAnswered(health, models)
  \/ CallGenerate
  \/ \E call \in in_flight, content \in DocResponses : GenerateReturns(call, content)
  \/ \E call \in in_flight, error \in DocErrors : GenerateRaises(call, error)

\* A single call of generate_document
SpecDocument == InitDocument /\ [][NextDocument]_vars

\* A FallbackClient has been constructed; the generator is not running
InitFallbackClient ==
  /\ settings \in SettingsSpace({DefaultMaxGenerationTokens})
  /\ _client = "None"
  /\ is_available = "None"
  /\ pc = "idle"
  /\ batch_i = 0
  /\ all_documents = <<>>
  /\ batch_previous_docs = <<>>
  /\ type_i = 0
  /\ documents = <<>>
  /\ doc_type = "None"
  /\ previous_docs = <<>>
  /\ max_retries = 0
  /\ attempt = 0
  /\ last_content = <<>>
  /\ last_error = NoneStr
  /\ in_flight = {}
  /\ doc = <<>>
  /\ result = <<>>
  /\ raised = "None"
  /\ InitHistory
  /\ InitFallback
  /\ InitNoResearch
  /\ InitNoPipeline
  /\ InitNoApi
  /\ InitNoFunction

\* no generate() call on the client is under way
Quiescent == \A c \in Calls : fb[c].pc \in {"idle", "done"}

NextFallback ==
  \/ \E c \in Calls, prompt \in Prompts, max_tokens \in MaxTokensArgs,
         temperature \in Temperatures :
       /\ Quiescent
       /\ \A d \in Calls : d < c => fb[d].pc = "done"
       /\ FallbackGenerate(c, prompt, max_tokens, temperature)
  \/ \E c \in Calls : PrimaryReturns(c)
  \/ \E c \in Calls, error \in ClaudeErrors : PrimaryRaises(c, error)
  \/ \E c \in Calls, health \in ProbeAnswers, models \in ProbeAnswers :
       HealthAnswered(c, health, models)
  \/ \E c \in Calls : SecondaryReturns(c)
  \/ \E c \in Calls, error \in LlamaErrors : SecondaryRaises(c, error)

\* One FallbackClient serving generate() calls one after another
SpecFallback == InitFallbackClient /\ [][NextFallback]_vars

\* generate_document has called _get_client on a new DocumentGenerator
InitFactory ==
  /\ settings \in SettingsSpace({DefaultMaxGenerationTokens})
  /\ _client = "None"
  /\ is_available = "None"
  /\ pc = "get_client"
  /\ batch_i = 0
  /\ all_documents = <<>>
  /\ batch_previous_docs = <<>>
  /\ type_i = 0
  /\ documents = <<>>
  /\ doc_type = "README"
  /\ previous_docs = <<>>
  /\ max_retries = DefaultMaxRetries
  /\ attempt = 0
  /\ last_content = <<>>
  /\ last_error = NoneStr
  /\ in_flight = {}
  /\ doc = <<>>
  /\ result = <<>>
  /\ raised = "None"
  /\ InitHistory
  /\ InitFallback
  /\ InitNoResearch
  /\ InitNoPipeline
  /\ InitNoApi
  /\ InitNoFunction

\* the errors a bare client's generate() raises
BackendErrors(client) ==
  IF BackendOf(client) = "claude" THEN ClaudeErrors ELSE LlamaErrors

NextFactory ==
  \/ _get_client
  \/ ProbeLlama
  \/ \E health \in ProbeAnswers, models \in ProbeAnswers : ProbeAnswered(health, models)
  \/ \E c \in Calls, prompt \in Prompts, max_tokens \in MaxTokensArgs,
         temperature \in Temperatures :
       /\ Quiescent
       /\ \A d \in Calls : d < c => fb[d].pc = "done"
       /\ BareGenerate(c, prompt, max_tokens, temperature)
  \/ \E c \in Calls : BareReturns(c)
  \/ \E c \in Calls, error \in BackendErrors(_client) : BareRaises(c, error)
  \/ \E c \in Calls, prompt \in Prompts, max_tokens \in MaxTokensArgs,
         temperature \in Temperatures :
       /\ _client = "FallbackClient"
       /\ Quiescent
       /\ \A d \in Calls : d < c => fb[d].pc = "done"
       /\ FallbackGenerate(c, prompt, max_tokens, temperature)
  \/ \E c \in Calls : PrimaryReturns(c)
  \/ \E c \in Calls, error \in ClaudeErrors : PrimaryRaises(c, error)
  \/ \E c \in Calls, health \in ProbeAnswers, models \in ProbeAnswers :
       HealthAnswered(c, health, models)
  \/ \E c \in Calls : SecondaryReturns(c)
  \/ \E c \in Calls, error \in LlamaErrors : SecondaryRaises(c, error)

\* _get_client obtains the generation client from get_generation_client, and
\* generate() is called on that client, one call after another
SpecFactory == InitFactory /\ [][NextFactory]_vars

\* One FallbackClient serving generate() calls that may overlap
NextFallbackConcurrent ==
  \/ \E c \in Calls, prompt \in Prompts, max_tokens \in MaxTokensArgs,
         temperature \in Temperatures :
       FallbackGenerate(c, prompt, max_tokens, temperature)
  \/ \E c \in Calls : PrimaryReturns(c)
  \/ \E c \in Calls, error \in ClaudeErrors : PrimaryRaises(c, error)
  \/ \E c \in Calls, health \in ProbeAnswers, models \in ProbeAnswers :
       HealthAnswered(c, health, models)
  \/ \E c \in Calls : SecondaryReturns(c)
  \/ \E c \in Calls, error \in LlamaErrors : SecondaryRaises(c, error)

SpecFallbackConcurrent == InitFallbackClient /\ [][NextFallbackConcurrent]_vars

\* A ResearchEngine has been constructed and execute_all is about to be called
\* with some list of agents; the generator is not running
InitResearch ==
  /\ settings = DefaultSettings
  /\ _client = "None"
  /\ is_available = "None"
  /\ pc = "idle"
  /\ batch_i = 0
  /\ all_documents = <<>>
  /\ batch_previous_docs = <<>>
  /\ type_i = 0
  /\ documents = <<>>
  /\ doc_type = "None"
  /\ previous_docs = <<>>
  /\ max_retries = 0
  /\ attempt = 0
  /\ last_content = <<>>
  /\ last_error = NoneStr
  /\ in_flight = {}
  /\ doc = <<>>
  /\ result = <<>>
  /\ raised = "None"
  /\ InitHistory
  /\ InitFallback
  /\ agents \in AgentLists
  /\ max_concurrent_agents \in 1..MaxConcurrent
  /\ anthropic_ok \in BOOLEAN
  /\ research_client = "None"
  /\ sem_value = 0
  /\ sem_waiters = <<>>
  /\ ready = <<>>
  /\ running = 0
  /\ task = <<>>
  /\ ea_pc = "idle"
  /\ final_results = <<>>
  /\ received = [i \in 1..Len(agents) |-> <<>>]
  /\ started = <<>>
  /\ InitNoPipeline
  /\ InitNoApi
  /\ InitNoFunction

NextResearch ==
  \/ execute_all
  \/ \E i \in Tasks : bounded_execute(i)
  \/ \E i \in Tasks : _ensure_client(i)
  \/ \E i \in Tasks, response \in ResearchResponses : MessagesCreateReturns(i, response)
  \/ \E i \in Tasks, error \in ResearchErrors : MessagesCreateRaises(i, error)
  \/ ReturnResults

\* One call of ResearchEngine.execute_all
SpecResearch == InitResearch /\ [][NextResearch]_vars

\* The generator is constructed and idle
InitGeneratorIdle ==
  /\ settings = DefaultSettings
  /\ _client = "None"
  /\ is_available = "None"
  /\ pc = "idle"
  /\ batch_i = 0
  /\ all_documents = <<>>
  /\ batch_previous_docs = <<>>
  /\ type_i = 0
  /\ documents = <<>>
  /\ doc_type = "None"
  /\ previous_docs = <<>>
  /\ max_retries = 0
  /\ attempt = 0
  /\ last_content = <<>>
  /\ last_error = NoneStr
  /\ in_flight = {}
  /\ doc = <<>>
  /\ result = <<>>
  /\ raised = "None"

\* A project has been created and its pipeline is about to run, from the api
\* or from the command line
InitPipeline ==
  /\ InitGeneratorIdle
  /\ InitHistory
  /\ InitFallback
  /\ InitNoResearch
  /\ InitNoApi
  /\ InitNoFunction
  /\ entry = "None"
  /\ project \in ProjectInputs
  /\ use_sanitized = FALSE
  /\ discovered_agents = <<>>
  /\ text_to_use = <<>>
  /\ pl_pc = "idle"
  /\ type_n = 0
  /\ sent = {}

NextPipeline ==
  \/ \E sanitized \in BOOLEAN : run_generation_pipeline(sanitized)
  \/ \E skip_privacy \in BOOLEAN : _generate_async(skip_privacy)
  \/ PipelineResearch
  \/ PipelineGenerate
  \/ PipelineGenerated

\* One run of the generation pipeline on one project
SpecPipeline == InitPipeline /\ [][NextPipeline]_vars

\* _is_content_truncated(content) returns its tuple (is_truncated, reason)
IsContentTruncatedReturns ==
  /\ fn = "_is_content_truncated"
  /\ fn_result = <<>>
  /\ fn_result' = <<_is_content_truncated(fn_arg), TruncationReason(fn_arg)>>
  /\ UNCHANGED <<fn, fn_arg>>
  /\ FunctionStep

\* no component is in use: only a pure function is called
InitComponentsIdle ==
  /\ InitGeneratorIdle
  /\ InitHistory
  /\ InitFallback
  /\ InitNoResearch
  /\ InitNoPipeline
  /\ InitNoApi

\* _is_content_truncated is about to be called with some content
InitTruncated ==
  /\ InitComponentsIdle
  /\ fn = "_is_content_truncated"
  /\ fn_arg \in Contents
  /\ fn_result = <<>>

NextTruncated == IsContentTruncatedReturns

\* One call of _is_content_truncated
SpecTruncated == InitTruncated /\ [][NextTruncated]_vars

\* _parse_response(agent, response) returns its AgentResult
ParseResponseReturns ==
  /\ fn = "_parse_response"
  /\ fn_result = <<>>
  /\ fn_result' = <<_parse_response(FrameworkAgent, ResponseOf(fn_arg))>>
  /\ UNCHANGED <<fn, fn_arg>>
  /\ FunctionStep

\* _parse_response is about to be called with a response in the structure the
\* prompts ask for
InitParse ==
  /\ InitComponentsIdle
  /\ fn = "_parse_response"
  /\ fn_arg \in StructuredOutputs
  /\ fn_result = <<>>

NextParse == ParseResponseReturns

\* One call of _parse_response
SpecParse == InitParse /\ [][NextParse]_vars

\* ---------------------------------------------------------------- the API

\* ProjectStatus
ProjectStatus ==
  {"pending", "agent_discovery", "privacy_review", "awaiting_approval",
   "researching", "generating", "quality_check", "outputting", "completed",
   "failed"}

\* what a request carries in the X-API-Key header and in the Authorization
\* header: nothing, the configured value, or another value
Presented == {"None", "valid", "invalid"}
Credentials ==
  {[api_key |-> "None", credentials |-> "None"],
   [api_key |-> "valid", credentials |-> "None"],
   [api_key |-> "None", credentials |-> "valid"],
   [api_key |-> "invalid", credentials |-> "valid"],
   [api_key |-> "invalid", credentials |-> "invalid"]}

\* ApprovalRequest
ApprovalRequests == [approved : BOOLEAN, use_sanitized : BOOLEAN]

\* verify_api_key: a user when a key is configured and the header equals it
verify_api_key(api_key) == api_key = "valid"

\* authenticate_user: a user when username and password are the admin's
authenticate_user(credentials) == credentials = "valid"

\* get_current_user: the API key first, then HTTP Basic, else 401
get_current_user(auth) ==
  IF auth.api_key # "None" /\ verify_api_key(auth.api_key) THEN "api_user"
  ELSE IF auth.credentials # "None" /\ authenticate_user(auth.credentials)
       THEN "admin"
       ELSE "401"

\* ProjectState(id, input, status): the status and the two fields the
\* handlers read, saying whether the list is non-empty; the fields that are
\* only written (current_phase, error, privacy_approved, privacy_flags, ...)
\* are left out
ProjectState(status) ==
  [status |-> status, discovered_agents |-> FALSE,
   generated_documents |-> FALSE]

\* how many pipelines were added as background tasks for the project
PipelinesOf(project_id) ==
  background_tasks[project_id]["added"] + background_tasks[project_id]["research"]
    + background_tasks[project_id]["generate"]
    + background_tasks[project_id]["output"]
    + background_tasks[project_id]["done"]

\* how many pipelines were added for the projects 1..n
RECURSIVE PipelinesUpTo(_)
PipelinesUpTo(n) == IF n = 0 THEN 0 ELSE PipelinesOf(n) + PipelinesUpTo(n - 1)

\* how many pipelines were added as background tasks
TasksAdded == PipelinesUpTo(MaxProjects)

\* project_states.get(project_id) finds a state
Found(project_id) == project_id \in 1..Len(project_states)

\* the statuses in which approve_privacy goes on (mutant: in any status)
ApprovableAlways(status) == TRUE

\* the statuses in which approve_privacy goes on
Approvable(status) == status \in {"privacy_review", "awaiting_approval"}

\* the answer to a request, with what the request carried: whether its
\* credentials were valid and, for an approve request, its approved field
Answer(handler, project_id, auth, approved, code, detail) ==
  [handler |-> handler, project_id |-> project_id,
   authenticated |-> get_current_user(auth) # "401", approved |-> approved,
   code |-> code, detail |-> detail]

\* the answer to a request other than approve
Response(handler, project_id, auth, code, detail) ==
  Answer(handler, project_id, auth, FALSE, code, detail)

\* the dependency RequireAuth raises 401 before the handler runs, and the
\* handler raises 404 for an id that names no project
Refused(handler, project_id, auth) ==
  /\ \/ get_current_user(auth) = "401"
     \/ ~Found(project_id)
  /\ last_response' = Response(handler, project_id, auth,
                          IF get_current_user(auth) = "401" THEN 401 ELSE 404,
                          "None")
  /\ UNCHANGED <<project_states, background_tasks, provider_calls>>

\* POST /projects: the handler has no RequireAuth parameter
create_project(auth) ==
  /\ Len(project_states) < MaxProjects
  /\ project_states' = Append(project_states, ProjectState("agent_discovery"))
  /\ last_response' = Response("create_project", Len(project_states) + 1, auth, 200,
                          "agent_discovery")
  /\ UNCHANGED <<background_tasks, provider_calls>>
  /\ ApiStep

\* GET /projects/{project_id}/discovery
get_discovery_results(project_id, auth) ==
  /\ \/ Refused("get_discovery_results", project_id, auth)
     \/ /\ get_current_user(auth) # "401"
        /\ Found(project_id)
        /\ project_states' =
             [project_states EXCEPT ![project_id].discovered_agents = TRUE,
                                    ![project_id].status = "privacy_review"]
        /\ last_response' = Response("get_discovery_results", project_id, auth, 200,
                                "privacy_review")
        /\ UNCHANGED <<background_tasks, provider_calls>>
  /\ ApiStep

\* POST /projects/{project_id}/approve
approve_privacy(project_id, approval, auth) ==
  /\ IF get_current_user(auth) = "401"
     THEN /\ last_response' = Answer("approve_privacy", project_id, auth,
                                     approval.approved, 401, "None")
          /\ UNCHANGED <<project_states, background_tasks>>
     ELSE IF ~Found(project_id)
     THEN /\ last_response' = Answer("approve_privacy", project_id, auth,
                                     approval.approved, 404, "None")
          /\ UNCHANGED <<project_states, background_tasks>>
     ELSE IF ~Approvable(project_states[project_id].status)
     THEN /\ last_response' = Answer("approve_privacy", project_id, auth,
                                     approval.approved, 400, "Cannot approve")
          /\ UNCHANGED <<project_states, background_tasks>>
     ELSE IF ~approval.approved
     THEN /\ project_states' =
               [project_states EXCEPT ![project_id].status = "failed"]
          /\ last_response' = Answer("approve_privacy", project_id, auth,
                                     approval.approved, 200, "cancelled")
          /\ UNCHANGED background_tasks
     ELSE /\ TasksAdded < MaxTasks
          /\ project_states' =
               [project_states EXCEPT ![project_id].status = "researching"]
          /\ background_tasks' =
               [background_tasks EXCEPT ![project_id]["added"] = @ + 1]
          /\ last_response' = Answer("approve_privacy", project_id, auth,
                                     approval.approved, 200, "started")
  /\ UNCHANGED provider_calls
  /\ ApiStep

\* GET /projects/{project_id}/status
get_project_status(project_id, auth) ==
  /\ \/ Refused("get_project_status", project_id, auth)
     \/ /\ get_current_user(auth) # "401"
        /\ Found(project_id)
        /\ last_response' = Response("get_project_status", project_id, auth, 200,
                                project_states[project_id].status)
        /\ UNCHANGED <<project_states, background_tasks, provider_calls>>
  /\ ApiStep

\* GET /projects/{project_id}/result
get_project_result(project_id, auth) ==
  /\ \/ Refused("get_project_result", project_id, auth)
     \/ /\ get_current_user(auth) # "401"
        /\ Found(project_id)
        /\ last_response' =
             IF project_states[project_id].status # "completed"
             THEN Response("get_project_result", project_id, auth, 400,
                           "Project not completed")
             ELSE Response("get_project_result", project_id, auth, 200,
                           "documents")
        /\ UNCHANGED <<project_states, background_tasks, provider_calls>>
  /\ ApiStep

\* GET /projects: the handler has no RequireAuth parameter; the answer lists
\* every project state (project_id holds how many)
list_projects(auth) ==
  /\ last_response' = Response("list_projects", Len(project_states), auth, 200,
                          "projects")
  /\ UNCHANGED <<project_states, background_tasks, provider_calls>>
  /\ ApiStep

\* a background task of the project moves from one position to the next
TaskMoves(project_id, from, to) ==
  /\ background_tasks[project_id][from] > 0
  /\ background_tasks' =
       [background_tasks EXCEPT ![project_id][from] = @ - 1,
                                ![project_id][to] = @ + 1]

\* run_generation_pipeline starts: up to the await of execute_all
TaskBegins(project_id) ==
  /\ TaskMoves(project_id, "added", "research")
  /\ project_states' =
       [project_states EXCEPT ![project_id].status = "researching"]
  /\ provider_calls' = provider_calls \cup {<<project_id, "research">>}
  /\ UNCHANGED last_response
  /\ ApiStep

\* execute_all has returned: up to the await of generate_all
TaskResearched(project_id) ==
  /\ TaskMoves(project_id, "research", "generate")
  /\ project_states' =
       [project_states EXCEPT ![project_id].status = "generating"]
  /\ UNCHANGED <<last_response, provider_calls>>
  /\ ApiStep

\* generate_all has returned: the quality check, up to the await of write
TaskGenerated(project_id) ==
  /\ TaskMoves(project_id, "generate", "output")
  /\ project_states' =
       [project_states EXCEPT ![project_id].generated_documents = TRUE,
                              ![project_id].status = "outputting"]
  /\ provider_calls' = provider_calls \cup {<<project_id, "generation">>}
  /\ UNCHANGED last_response
  /\ ApiStep

\* write has returned: the pipeline completes
TaskWritten(project_id) ==
  /\ TaskMoves(project_id, "output", "done")
  /\ project_states' =
       [project_states EXCEPT ![project_id].status = "completed"]
  /\ UNCHANGED <<last_response, provider_calls>>
  /\ ApiStep

\* generate_all or write has raised: except Exception
TaskFails(project_id) ==
  /\ \/ TaskMoves(project_id, "generate", "done")
     \/ TaskMoves(project_id, "output", "done")
  /\ project_states' =
       [project_states EXCEPT ![project_id].status = "failed"]
  /\ UNCHANGED <<last_response, provider_calls>>
  /\ ApiStep

\* the service has started: no project, no request answered
InitApi ==
  /\ InitGeneratorIdle
  /\ InitHistory
  /\ InitFallback
  /\ InitNoResearch
  /\ InitNoPipeline
  /\ InitNoFunction
  /\ project_states = <<>>
  /\ background_tasks = NoTasks
  /\ last_response = NoResponse
  /\ provider_calls = {}

\* a request is served
ApiRequest ==
  \/ \E auth \in Credentials : create_project(auth)
  \/ \E project_id \in ProjectIds, auth \in Credentials :
       get_discovery_results(project_id, auth)
  \/ \E project_id \in ProjectIds, approval \in ApprovalRequests,
        auth \in Credentials : approve_privacy(project_id, approval, auth)
  \/ \E project_id \in ProjectIds, auth \in Credentials :
       get_project_status(project_id, auth)
  \/ \E project_id \in ProjectIds, auth \in Credentials :
       get_project_result(project_id, auth)
  \/ \E auth \in Credentials : list_projects(auth)

\* a background task moves on
TaskStep ==
  \/ \E project_id \in ProjectIds : TaskBegins(project_id)
  \/ \E project_id \in ProjectIds : TaskResearched(project_id)
  \/ \E project_id \in ProjectIds : TaskGenerated(project_id)
  \/ \E project_id \in ProjectIds : TaskWritten(project_id)
  \/ \E project_id \in ProjectIds : TaskFails(project_id)

NextApi == ApiRequest \/ TaskStep

\* The API under any interleaving of requests and background tasks
SpecApi == InitApi /\ [][NextApi]_vars

\* ------------------------------------------------------------- properties

\* docs holds exactly 15 documents, exactly one per DocumentType
CompleteSet(docs) ==
  /\ Len(docs) = 15
  /\ \A t \in DocumentType :
       Cardinality({i \in 1..Len(docs) : docs[i].type = t}) = 1

\* the content starts with the marked error placeholder of the document type
IsErrorPlaceholder(d) == StartsWith(d.content, ErrorPrefix(d.type))

\* every attempt made so far for the document returned truncated content
AlwaysTruncated ==
  \A i \in 1..Len(outcomes) :
    outcomes[i].kind = "returned" /\ _is_content_truncated(outcomes[i].content)

\* the sum of the whitespace-token counts of the contents
RECURSIVE SumTokens(_)
SumTokens(docs) ==
  IF docs = <<>> THEN 0 ELSE WordCount(Head(docs).content) + SumTokens(Tail(docs))

\* the batch of DOCUMENT_BATCHES with that batch_number
BatchNumbered(n) ==
  CHOOSE b \in {DOCUMENT_BATCHES[i] : i \in 1..Len(DOCUMENT_BATCHES)} :
    b.batch_number = n

\* docs holds a document of type t
HoldsType(docs, t) == \E j \in 1..Len(docs) : docs[j].type = t

\* generate_document is under way (called and not yet returned to its caller)
InGenerateDocument ==
  pc \in {"get_client", "probing", "attempt", "awaiting", "document_returned"}

\* C1, as stated: generate_all never raises, and the project it returns holds
\* exactly 15 documents, one per DocumentType
C1_AlwaysReturnsCompleteProject ==
  /\ pc # "raised"
  /\ pc = "returned" => CompleteSet(result[1].documents)

\* C1, amended: whatever the generate() calls do (raise, return truncated
\* content), the project generate_all returns holds exactly 15 documents, one
\* per DocumentType; generate_all raises only the RuntimeError of
\* get_generation_client, when the provider is "llamacpp", its probe answered
\* false and llamacpp_fallback_to_claude is off, before any document is
\* generated
C1_CompleteProjectOrConfigurationError ==
  /\ pc = "returned" => CompleteSet(result[1].documents)
  /\ pc = "raised" =>
       /\ raised = "RuntimeError"
       /\ settings.generation_provider = "llamacpp"
       /\ is_available = "False"
       /\ ~settings.llamacpp_fallback_to_claude
       /\ generated = <<>>
       /\ n_calls = 0

\* C1 witness: a run in which every attempt for some document raised has returned
C1_ReturnedDespiteFailedDocument ==
  /\ pc = "returned"
  /\ \E i \in 1..Len(how) : how[i] = "failed"

\* C2: while the provider has returned truncated content on every call,
\* generate_document has called it at most max_retries + 1 times and has not
\* raised, and the Document it returns holds the content of the last call
C2_RetryCeiling ==
  (_client # "None" /\ AlwaysTruncated) =>
    /\ doc_calls <= max_retries + 1
    /\ raised = "None"
    /\ pc = "document_returned" =>
         /\ doc_calls = max_retries + 1
         /\ doc[1].content = outcomes[Len(outcomes)].content

\* C2 witness: three truncated responses, and the document is returned
C2_ReturnedAfterThreeTruncations ==
  /\ pc = "document_returned"
  /\ AlwaysTruncated
  /\ max_retries = 2
  /\ Len(outcomes) = 3

\* C3, as stated: the Document generate_document returns has the requested
\* type and non-empty content, whatever the provider returned
C3_RequestedTypeAndNonEmptyContent ==
  pc = "document_returned" =>
    /\ doc[1].type = doc_type
    /\ doc[1].content # <<>>

\* C4, as stated: every document of the returned project that was not generated
\* cleanly carries the marked error placeholder
C4_UncleanDocumentsCarryPlaceholder ==
  pc = "returned" =>
    \A i \in 1..Len(result[1].documents) :
      how[i] # "clean" => IsErrorPlaceholder(result[1].documents[i])

\* C4, amended: in the returned project, a document carries the marked error
\* placeholder exactly when its last attempt raised while no content was held;
\* a document whose last attempt was still truncated, or whose last attempt
\* raised after non-empty content had been returned, carries no marker
C4_OnlyFailedDocumentsCarryPlaceholder ==
  pc = "returned" =>
    \A i \in 1..Len(result[1].documents) :
      IsErrorPlaceholder(result[1].documents[i]) <=> how[i] = "failed"

\* C4 witness: a returned project with a document made of partial content
C4_ReturnedWithPartialDocument ==
  /\ pc = "returned"
  /\ \E i \in 1..Len(how) : how[i] = "partial"

\* C5: when the last attempt raised, generate_document does not raise; if every
\* attempt raised the result is the title heading with the text of the last
\* error; if content is held from an earlier attempt (the most recent return,
\* non-empty) the result's content is that content
C5_PlaceholderOrLastContent ==
  (pc = "document_returned" /\ outcomes[Len(outcomes)].kind = "raised") =>
    /\ raised = "None"
    /\ (\A i \in 1..Len(outcomes) : outcomes[i].kind = "raised") =>
         doc[1].content =
           <<"#", " ">> \o DOCUMENT_CONFIG[doc_type].title
             \o <<"\n", "\n", "*", "E", "r", "r", "o", "r", " ", "g", "e", "n", "e",
                  "r", "a", "t", "i", "n", "g", " ", "d", "o", "c", "u", "m", "e",
                  "n", "t", ":", " ">>
             \o outcomes[Len(outcomes)].error \o <<"*">>
    /\ LastReturned(outcomes) # <<>> => doc[1].content = LastReturned(outcomes)

\* C5 witness: truncated content, then two raises, and the document is returned
C5_ReturnedAfterContentThenRaises ==
  /\ pc = "document_returned"
  /\ Len(outcomes) = 3
  /\ outcomes[1].kind = "returned"
  /\ outcomes[1].content # <<>>
  /\ outcomes[2].kind = "raised"
  /\ outcomes[3].kind = "raised"

\* C6, as stated: on every path word_count is the number of whitespace-delimited
\* tokens of the returned Document's content
C6_WordCountIsTokenCount ==
  pc = "document_returned" => doc[1].word_count = WordCount(doc[1].content)

\* C7: with a provider that returned well-formed markdown on every call,
\* generate_all returns 15 documents, total_word_count is the sum of the
\* whitespace-token counts of their contents, and each document's folder and
\* filename are those of DOCUMENT_CONFIG for its type
C7_EndToEnd ==
  (pc = "returned" /\ faulty_docs = 0) =>
    LET docs == result[1].documents
    IN  /\ Len(docs) = 15
        /\ result[1].total_word_count = SumTokens(docs)
        /\ \A i \in 1..Len(docs) :
             /\ docs[i].folder = DOCUMENT_CONFIG[docs[i].type].folder
             /\ docs[i].filename = DOCUMENT_CONFIG[docs[i].type].filename

\* C7 witness: a run without any raise or truncation has returned
C7_CleanRunReturned ==
  /\ pc = "returned"
  /\ faulty_docs = 0
  /\ n_calls = 15

\* C8: the previous_docs given to generate_document are the documents generated
\* earlier in the run, in order; so they hold every document of every batch the
\* current batch depends on, and every document generated earlier in the batch
C8_PreviousDocsAreEarlierDocuments ==
  InGenerateDocument =>
    /\ previous_docs =
         IF pc = "document_returned"
         THEN SubSeq(generated, 1, Len(generated) - 1)
         ELSE generated
    /\ \A n \in DOCUMENT_BATCHES[batch_i].depends_on :
         \A k \in 1..Len(BatchNumbered(n).document_types) :
           HoldsType(previous_docs, BatchNumbered(n).document_types[k])
    /\ \A k \in 1..(type_i - 1) :
         HoldsType(previous_docs, DOCUMENT_BATCHES[batch_i].document_types[k])

\* C8 witness: the second document of batch 3 is being generated
C8_SecondDocumentOfThirdBatch ==
  /\ pc = "awaiting"
  /\ batch_i = 3
  /\ type_i = 2
  /\ Len(previous_docs) = 6

\* C9: at most one client.generate() call of the generator is in flight, and it
\* is the call for the document that follows the documents already returned
C9_OneCallInFlight ==
  /\ Cardinality(in_flight) <= 1
  /\ \A call \in in_flight :
       /\ Len(generated) < Len(GenerationOrder)
       /\ call.doc_type = GenerationOrder[Len(generated) + 1]

\* C9 witness: the call for the eighth document is in flight
C9_CallForEighthDocument ==
  /\ Cardinality(in_flight) = 1
  /\ Len(generated) = 7

\* C10: a generate() call whose primary raised, with the secondary live and
\* succeeding, returns the secondary's output for the prompt, max_tokens and
\* temperature of the call when fallback is enabled; with fallback disabled it
\* raises the primary's error again and the secondary is never contacted
C10_FallbackToSecondary ==
  \A c \in Calls :
    (fb[c].pc = "done" /\ fb[c].primary_error # "None") =>
      IF settings.claude_fallback_to_llamacpp
      THEN (_llama_available = "True" /\ fb[c].secondary # "raised") =>
             fb[c].result =
               <<"returned", <<"llama", fb[c].prompt, fb[c].max_tokens,
                               fb[c].temperature>>>>
      ELSE /\ fb[c].result = <<"raised", fb[c].primary_error>>
           /\ llama_requests = {}
           /\ health_checks = 0
           /\ _llama_client = "None"

\* C10 witness: with fallback enabled, a call whose primary raised has returned
\* the secondary's output for non-default arguments
C10_ServedBySecondary ==
  \E c \in Calls :
    /\ settings.claude_fallback_to_llamacpp
    /\ fb[c].pc = "done"
    /\ fb[c].primary_error # "None"
    /\ fb[c].result = <<"returned", <<"llama", "prompt-b", 8192, "0.2">>>>

\* C11: over the generate() calls made one after another on one FallbackClient,
\* the secondary's health_check is invoked at most once and its cached result
\* decides every call whose primary failed: after a probe that answered true
\* the call goes to the secondary's generate(); after a probe that answered
\* false the call raises the primary's own error again and the secondary's
\* generate() is never called
C11_ProbedOnceAndReused ==
  /\ health_checks <= 1
  /\ _llama_available # "None" => health_checks = 1
  /\ _llama_available = "False" => llama_requests = {}
  /\ \A c \in Calls :
       (/\ fb[c].pc = "done"
        /\ fb[c].primary_error # "None"
        /\ settings.claude_fallback_to_llamacpp) =>
         /\ _llama_available \in {"True", "False"}
         /\ _llama_available = "True" =>
              /\ fb[c].secondary # "None"
              /\ \E r \in llama_requests : r.call = c
         /\ _llama_available = "False" =>
              /\ fb[c].result = <<"raised", fb[c].primary_error>>
              /\ fb[c].secondary = "None"

\* C11 witness: after a probe that answered false, two calls whose primary
\* failed have both raised the primary's error, with one health_check made
C11_TwoCallsAfterFailedProbe ==
  /\ _llama_available = "False"
  /\ health_checks = 1
  /\ \A c \in 1..2 :
       /\ fb[c].pc = "done"
       /\ fb[c].primary_error # "None"
       /\ fb[c].result = <<"raised", fb[c].primary_error>>

\* the backend whose text a finished call returned, "None" if it raised
ServedBy(call) == IF call.result[1] = "returned" THEN call.result[2][1] ELSE "None"

\* get_generation_client has returned a client to _get_client
ClientReturned == pc = "attempt"

\* C12: the decision table of get_generation_client. Provider "llamacpp" and
\* probe true: the LlamaCPPClient itself, whose calls only the self-hosted
\* backend serves. Provider "llamacpp", probe false, llamacpp_fallback_to_claude
\* on: a client whose generate() is served by the hosted backend. Provider
\* "llamacpp", probe false, fallback off: RuntimeError and no client. Provider
\* "claude" with claude_fallback_to_llamacpp on: a FallbackClient, hosted
\* primary and self-hosted secondary. Provider "claude" with the flag off: the
\* bare ClaudeClient
C12_DecisionTable ==
  LET self_hosted == settings.generation_provider = "llamacpp"
      done == {c \in Calls : fb[c].pc = "done"}
  IN  /\ (self_hosted /\ is_available = "True") =>
           /\ ClientReturned /\ _client = "LlamaCPPClient"
           /\ claude_requests = {}
           /\ \A c \in done : ServedBy(fb[c]) \in {"llama", "None"}
      /\ (self_hosted /\ is_available = "False"
            /\ settings.llamacpp_fallback_to_claude) =>
           /\ ClientReturned /\ _client = "ClaudeClient"
           /\ llama_requests = {}
           /\ \A c \in done : ServedBy(fb[c]) \in {"claude", "None"}
      /\ (self_hosted /\ is_available = "False"
            /\ ~settings.llamacpp_fallback_to_claude) =>
           /\ pc = "raised" /\ raised = "RuntimeError"
           /\ _client = "None"
           /\ \A c \in Calls : fb[c].pc = "idle"
      /\ pc = "raised" =>
           /\ self_hosted /\ is_available = "False"
           /\ ~settings.llamacpp_fallback_to_claude
      /\ (~self_hosted /\ ClientReturned) =>
           /\ is_available = "None"
           /\ IF settings.claude_fallback_to_llamacpp
              THEN /\ _client = "FallbackClient"
                   /\ \A c \in Calls : fb[c].pc # "idle" =>
                        \E r \in claude_requests : r.call = c
                   /\ \A r \in llama_requests : fb[r.call].primary_error # "None"
              ELSE /\ _client = "ClaudeClient"
                   /\ llama_requests = {}
                   /\ health_checks = 0
                   /\ \A c \in done : ServedBy(fb[c]) \in {"claude", "None"}

\* C12 witness: the self-hosted provider is configured, its probe answered
\* false, the fallback to the hosted provider is on, and a generate() call on
\* the client returned was served by the hosted backend
C12_HostedServesAfterFailedProbe ==
  /\ settings.generation_provider = "llamacpp"
  /\ settings.llamacpp_fallback_to_claude
  /\ is_available = "False"
  /\ \E c \in Calls : fb[c].pc = "done" /\ ServedBy(fb[c]) = "claude"

\* C13, as stated: whenever the fallback direction of the configured primary
\* is enabled and the other backend is live, a generate() call whose primary
\* raised is served by the other backend; in particular a LlamaCPPClient that
\* passed the probe and raises later is substituted by the hosted backend
C13_SwitchesBackendOnError ==
  \A c \in Calls :
    (fb[c].pc = "done" /\ fb[c].primary_error # "None") =>
      /\ (_client = "FallbackClient" /\ _llama_available = "True"
            /\ fb[c].secondary # "raised") =>
           ServedBy(fb[c]) = "llama"
      /\ (_client = "LlamaCPPClient" /\ settings.llamacpp_fallback_to_claude) =>
           /\ \E r \in claude_requests : r.call = c
           /\ ServedBy(fb[c]) = "claude"

\* C13, amended: switching on an error of generate() exists in one direction
\* only. The FallbackClient returned for the provider "claude" with
\* claude_fallback_to_llamacpp on turns to the self-hosted backend when the
\* hosted one raises and the probe answers true. For the provider "llamacpp"
\* the fallback acts at the initial probe only: the client returned after a
\* successful probe is the bare LlamaCPPClient, and when its generate() raises
\* later the hosted backend is not contacted and the error leaves generate(),
\* whatever llamacpp_fallback_to_claude says
C13_SwitchesOnlyFromHostedPrimary ==
  \A c \in Calls :
    (fb[c].pc = "done" /\ fb[c].primary_error # "None") =>
      /\ (_client = "FallbackClient" /\ _llama_available = "True"
            /\ fb[c].secondary # "raised") =>
           ServedBy(fb[c]) = "llama"
      /\ _client = "LlamaCPPClient" =>
           /\ claude_requests = {}
           /\ fb[c].result = <<"raised", fb[c].primary_error>>
           /\ fb[c].primary_error \in LlamaErrors
      /\ _client = "ClaudeClient" =>
           /\ llama_requests = {}
           /\ fb[c].result = <<"raised", fb[c].primary_error>>

\* C13 witness: the self-hosted provider passed the probe with the fallback to
\* the hosted provider on, and a later generate() call on it has raised
C13_SelfHostedRaisedAfterProbe ==
  /\ settings.generation_provider = "llamacpp"
  /\ settings.llamacpp_fallback_to_claude
  /\ is_available = "True"
  /\ \E c \in Calls :
       /\ fb[c].pc = "done"
       /\ fb[c].result = <<"raised", "HTTPError">>

\* C14: a FallbackClient is safe for concurrent use: with fallback enabled and
\* a live secondary, every generate() call whose primary failed returns the
\* secondary's output, also when the calls overlap; none raises the primary's
\* error again because the health check of another call is still under way
C14_ConcurrentCallsServedBySecondary ==
  (settings.claude_fallback_to_llamacpp /\ _llama_available = "True") =>
    \A c \in Calls :
      (fb[c].pc = "done" /\ fb[c].primary_error # "None"
         /\ fb[c].secondary # "raised") =>
        ServedBy(fb[c]) = "llama"

\* the agents that have entered execute_agent and not yet left it
Inside == {i \in Tasks : task[i].pc \in {"execute_agent", "provider_call"}}

\* the provider call of agent i returned (kind "returned") or raised ("raised")
Got(i, kind) == received[i] # <<>> /\ received[i][1] = kind

\* the result execute_all returned for the agent at position i
FinalResult(i) == final_results[1][i]

\* C15: execute_all does not raise, and the list it returns has exactly
\* len(agents) results, result i carrying the id of agents[i], whichever agents
\* fail; a task that raised is represented by an error result, not left out
C15_OneResultPerAgentInOrder ==
  /\ ea_pc \in {"idle", "gather", "returned"}
  /\ ea_pc = "returned" =>
       /\ Len(final_results[1]) = Len(agents)
       /\ \A i \in Tasks :
            /\ FinalResult(i).agent_id = agents[i].id
            /\ FinalResult(i).findings # <<>>

\* C15 witness: execute_all has returned for three agents of which one got an
\* error from its provider call and another got a response
C15_ReturnedWithMixedOutcomes ==
  /\ ea_pc = "returned"
  /\ Len(agents) = 3
  /\ \E i, j \in Tasks : Got(i, "raised") /\ Got(j, "returned")

\* C16: when agents raise, execute_all still returns one result per agent; a
\* failing agent's result has a non-empty findings list that holds the text of
\* the error, and empty sources and recommendations; every other agent runs to
\* completion, and its result is the parse of its own response, as it would be
\* had no agent failed
C16_FailureIsContained ==
  ea_pc = "returned" =>
    /\ Len(final_results[1]) = Len(agents)
    /\ \A i \in Tasks :
         /\ task[i].pc = "done"
         /\ anthropic_ok => received[i] # <<>>
         /\ received[i] = <<>> =>
              /\ FinalResult(i).findings = <<ExecutionFailedPrefix \o NotInstalled>>
              /\ FinalResult(i).sources = <<>>
              /\ FinalResult(i).recommendations = <<>>
         /\ Got(i, "raised") =>
              /\ FinalResult(i).findings = <<ResearchErrorPrefix \o received[i][2]>>
              /\ FinalResult(i).sources = <<>>
              /\ FinalResult(i).recommendations = <<>>
         /\ Got(i, "returned") =>
              FinalResult(i) = _parse_response(agents[i], received[i][2])

\* C16 witness: of three agents exactly one raised, and the two others have
\* their findings, sources and recommendations
C16_OneOfThreeRaised ==
  /\ ea_pc = "returned"
  /\ Len(agents) = 3
  /\ Cardinality({i \in Tasks : Got(i, "raised")}) = 1
  /\ \E i \in Tasks :
       /\ FinalResult(i).findings = << <<"a">> >>
       /\ FinalResult(i).sources = << <<"b">> >>
       /\ FinalResult(i).recommendations = << <<"c">> >>

\* C17: at every moment of execute_all at most max_concurrent_agents agents
\* are inside execute_agent, each of them holds one permit, and a permit is
\* given back when its agent finishes or fails; with max_concurrent_agents = 1
\* no two agents are inside at once
C17_BoundedByPermits ==
  ea_pc \in {"gather", "returned"} =>
    /\ Cardinality(Inside) <= max_concurrent_agents
    /\ sem_value = max_concurrent_agents - Cardinality(Inside)
    /\ max_concurrent_agents = 1 => Cardinality(Inside) <= 1
    /\ ea_pc = "returned" => sem_value = max_concurrent_agents

\* C17 witness: with max_concurrent_agents = 1, an agent is inside its provider
\* call after one agent has failed and left, and while another has yet to enter
C17_InsideAfterFailureOfAnother ==
  /\ ea_pc = "gather"
  /\ max_concurrent_agents = 1
  /\ \E i, j, k \in Tasks :
       /\ task[i].pc = "provider_call"
       /\ task[j].pc = "done" /\ Got(j, "raised")
       /\ task[k].pc = "pending"

\* C18: the provider call of a research agent is an awaited suspension point
\* that leaves the event loop free: while an agent is inside its provider call
\* the task does not hold the event loop thread, and with a permit free the
\* next ready agent can enter, so that two agents are inside their provider
\* calls at the same time
C18_ProviderCallLeavesLoopFree ==
  \A i \in Tasks :
    (ea_pc = "gather" /\ task[i].pc = "provider_call") =>
      /\ running # i
      /\ (sem_value > 0 /\ ready # <<>>) => ENABLED bounded_execute(Head(ready))

\* what the last health_check returned: to get_generation_client for the
\* provider "llamacpp", to the FallbackClient otherwise
Availability ==
  IF settings.generation_provider = "llamacpp" THEN is_available
  ELSE _llama_available

\* C19: LlamaCPPClient.health_check never raises and returns false when both
\* requests raise; when the probe of the first endpoint does not succeed it
\* probes the second endpoint, and returns true if that one answers 200, so
\* that a live server without the first endpoint is reported healthy
C19_SecondEndpointWhenFirstFails ==
  probe # <<>> =>
    /\ Availability \in {"True", "False"}
    /\ (\A k \in 1..Len(probe) : probe[k][2] = "exception") => Availability = "False"
    /\ probe[1][2] # "200" =>
         /\ Len(probe) = 2
         /\ probe[2] = <<"/v1/models", "200">> => Availability = "True"

\* the words of the project text that the scan flags
FlaggedWords(p) == {FullText(p)[f.start] : f \in scan(FullText(p)).flags}

\* a prompt that carries a flagged word of the project
Leaks(m) == \E i \in 1..Len(m.text) : m.text[i] \in FlaggedWords(project)

\* C20: when the sanitized option is chosen, every prompt sent to a provider,
\* the research prompts and the generation prompts of all documents, is built
\* from the sanitized project text: no flagged word of the project reaches a
\* provider
C20_EveryPromptFromSanitizedText ==
  use_sanitized => \A m \in sent : ~Leaks(m)

\* the number of bold delimiters in t is odd: a bold span is left open
OpenBold(t) == Count(t, <<"*", "*">>) % 2 = 1

\* the conditions of truncation: the content is empty, its fences are odd in
\* number, its last line is no special line and has no valid ending, or its
\* last TailWindow characters leave a bold span or a link open
LooksTruncated(content) ==
  LET c == Strip(content)
      lines == StripNonEmpty(SplitLines(c, <<>>))
      last_line == lines[Len(lines)]
  IN  \/ c = <<>>
      \/ Count(c, Fence) % 2 = 1
      \/ /\ ~IsSpecialLine(last_line)
         /\ last_line[Len(last_line)] \notin valid_endings
      \/ OpenBold(LastChars(c, TailWindow))
      \/ UnclosedLink(LastChars(c, TailWindow))

\* C23: _is_content_truncated flags a content exactly when it is empty, has an
\* odd number of fences, ends in a line that is no special line and has no
\* acceptable ending, or leaves a bold span or a link open in its last 200
\* characters; text ending in "the budget is" is flagged, text ending in
\* "finalized." with fences, bold spans and links closed is not
C23_FlaggedExactlyWhenTruncated ==
  (fn = "_is_content_truncated" /\ fn_result # <<>>) =>
    /\ fn_result[1] = LooksTruncated(fn_arg)
    /\ EndsWith(fn_arg, CutOff) => fn_result[1]
    /\ (EndsWith(fn_arg, Finalized) /\ ~LooksTruncated(fn_arg)) => ~fn_result[1]

\* the call is served by ClaudeClient.generate: the client is the hosted one,
\* or a FallbackClient, whose primary is the hosted one
ReachesClaude(call) == call.client \in {"ClaudeClient", "FallbackClient"}

\* C24: every provider call of generate_document has max_tokens =
\* min(max_generation_tokens, 8192), on every attempt, and no such call makes
\* the hosted client take its streaming path
C24_CeilingKeepsBelowStreaming ==
  \A call \in in_flight :
    /\ call.max_tokens = Min(settings.max_generation_tokens, TokenCeiling)
    /\ ReachesClaude(call) => ~TakesStreamingPath(call.max_tokens)

\* C25: for a response in the structure the research prompts ask for, headers
\* KEY FINDINGS, SOURCES and RECOMMENDATIONS written as "NAME:" or as
\* "### NAME" and followed by bullets, _parse_response puts every bullet into
\* the list of its section and into no other, and raw_response is the text
C25_BulletsUnderTheirSection ==
  (fn = "_parse_response" /\ fn_result # <<>>) =>
    /\ fn_result[1].findings = fn_arg.bullets["findings"]
    /\ fn_result[1].sources = fn_arg.bullets["sources"]
    /\ fn_result[1].recommendations = fn_arg.bullets["recommendations"]
    /\ fn_result[1].raw_response = <<OutputText(fn_arg)>>

\* generate_document has built its prompt: the previous-documents context in
\* it is that of the list generate_batch passed
PromptBuilt == pc \in {"attempt", "awaiting"}

PromptContext == _get_previous_context(previous_docs)

\* the context holds a part for the document of type t among docs
Represented(context, docs, t) ==
  \E k \in 1..Len(context), j \in 1..Len(docs) :
    /\ docs[j].type = t
    /\ context[k] = [title |-> docs[j].title, excerpt |-> Excerpt(docs[j].content)]

\* the types of the documents of the batches the current batch depends on
DependencyTypes ==
  UNION {{BatchNumbered(n).document_types[i] :
            i \in 1..Len(BatchNumbered(n).document_types)} :
         n \in DOCUMENT_BATCHES[batch_i].depends_on}

\* the place of a document type in the order of generation
PositionOf(t) == CHOOSE k \in 1..Len(GenerationOrder) : GenerationOrder[k] = t

\* C26, as stated: for every document of a batch with dependencies, the
\* previous-documents context placed in its prompt represents every document
\* of every batch the batch depends on, by title and excerpt
C26_ContextCompleteForDependencies ==
  PromptBuilt =>
    \A t \in DependencyTypes : Represented(PromptContext, previous_docs, t)

\* C26, amended: the list of previous documents passed to prompt construction
\* holds every document of every batch the batch depends on; the context
\* placed in the prompt represents, in order, the up to three documents
\* generated last before the current one, and no other
C26_ContextIsTheLastThree ==
  PromptBuilt =>
    /\ \A t \in DependencyTypes : HoldsType(previous_docs, t)
    /\ LET k == PositionOf(doc_type)
           first == IF k - ContextWindow >= 1 THEN k - ContextWindow ELSE 1
       IN  /\ Len(PromptContext) = k - first
           /\ \A i \in 1..(k - first) :
                /\ PromptContext[i].title = DOCUMENT_CONFIG[GenerationOrder[first + i - 1]].title
                /\ Represented(PromptContext, previous_docs,
                               GenerationOrder[first + i - 1])

\* the prompt of the first document of batch 3 is built: five documents were
\* passed, of the batches 1 and 2 it depends on, and three are in the context
C26_FiveDependenciesThreeInContext ==
  /\ PromptBuilt
  /\ doc_type = "GOALS_SUCCESS"
  /\ DependencyTypes = {"README", "PROJECT_BRIEF", "GLOSSARY", "CONTEXT_BACKGROUND",
                        "STAKEHOLDER_NOTES"}
  /\ Len(previous_docs) = 5
  /\ Len(PromptContext) = 3
  /\ ~Represented(PromptContext, previous_docs, "README")

\* the agents are listed in ascending order of priority
SortedByPriority(ags) ==
  \A j, k \in 1..Len(ags) : j < k => ags[j].priority <= ags[k].priority

\* the agents started, in the order of their starts, have ascending priorities
AscendingPriority(order, ags) ==
  \A j, k \in 1..Len(order) :
    j < k => ags[order[j]].priority <= ags[order[k]].priority

CallsWithinRetries ==
  /\ doc_calls <= DefaultMaxRetries + 1
  /\ n_calls <= Len(generated) * (DefaultMaxRetries + 1) + doc_calls
  /\ n_calls <= Cardinality(DocumentType) * (DefaultMaxRetries + 1)

\* C28, as stated: if every provider call eventually returns or raises,
\* generate_all eventually returns, after at most 15 x (max_retries + 1) calls
\* of generate(), and a document whose calls all fail does not keep the
\* documents after it from being generated
C28_EventuallyReturns ==
  /\ <>(pc = "returned")
  /\ [](CallsWithinRetries)
  /\ [](pc = "returned" => CompleteSet(result[1].documents))

\* C28, amended: if every provider call eventually returns or raises,
\* generate_all eventually returns or raises the RuntimeError of
\* get_generation_client; it raises only before any call of generate(); the
\* calls of generate() number at most max_retries + 1 for each document, 15 x
\* (max_retries + 1) in all, and the project returned holds all 15 documents,
\* those after a document whose calls all failed included
C28_EventuallyReturnsOrConfigurationError ==
  /\ <>(pc \in {"returned", "raised"})
  /\ [](pc = "raised" => (raised = "RuntimeError" /\ n_calls = 0))
  /\ [](CallsWithinRetries)
  /\ [](pc = "returned" => CompleteSet(result[1].documents))

\* generate_all has returned after a document all of whose calls raised, with
\* documents generated after it
C28_ReturnedAfterFailedDocument ==
  /\ pc = "returned"
  /\ Len(generated) = Cardinality(DocumentType)
  /\ \E k \in 1..(Len(how) - 1) : how[k] = "failed"
  /\ n_calls = Cardinality(DocumentType) + DefaultMaxRetries

\* the statuses in which the privacy review is open
ReviewStatuses == {"privacy_review", "awaiting_approval"}

\* the statuses that end a project
TerminalStatuses == {"completed", "failed"}

\* the step answers a request to the handler: no background task moves (a
\* task that moves arrives at a position other than "added")
RequestAnswered(handler) ==
  /\ last_response'.handler = handler
  /\ \A project_id \in ProjectIds, position \in TaskPositions \ {"added"} :
       background_tasks'[project_id][position]
         = background_tasks[project_id][position]

\* C21: approval is the gate before any provider call. A research or
\* generation call is made for a project only after a pipeline was added for
\* it, and a pipeline is added only by an authenticated approve request with
\* approved = true answered "started" while the project is in privacy_review
\* or awaiting_approval; an accepted request with approved = false moves the
\* project to failed and adds no pipeline; an approve request in any other
\* status (or unauthenticated, or for an unknown id) is answered 400 (401,
\* 404) and changes neither the project states nor the tasks nor the calls.
C21_ApprovalGatesProviderCalls ==
  /\ [][\A call \in provider_calls' : PipelinesOf(call[1])' > 0]_vars
  /\ [][\A project_id \in ProjectIds :
          PipelinesOf(project_id)' > PipelinesOf(project_id) =>
            /\ Found(project_id)
            /\ project_states[project_id].status \in ReviewStatuses
            /\ last_response' =
                 [handler |-> "approve_privacy", project_id |-> project_id,
                  authenticated |-> TRUE, approved |-> TRUE, code |-> 200,
                  detail |-> "started"]]_vars
  /\ [][RequestAnswered("approve_privacy") =>
          \A project_id \in {last_response'.project_id} :
            IF /\ last_response'.authenticated
               /\ Found(project_id)
               /\ project_states[project_id].status \in ReviewStatuses
            THEN IF last_response'.approved
                 THEN /\ last_response'.detail = "started"
                      /\ PipelinesOf(project_id)' = PipelinesOf(project_id) + 1
                      /\ project_states'[project_id].status = "researching"
                 ELSE /\ last_response'.detail = "cancelled"
                      /\ project_states'[project_id].status = "failed"
                      /\ background_tasks' = background_tasks
                      /\ provider_calls' = provider_calls
            ELSE /\ last_response'.code \in {400, 401, 404}
                 /\ UNCHANGED <<project_states, background_tasks,
                                provider_calls>>]_vars

\* C21 witness: the generation provider was called for a project whose one
\* pipeline was added by an accepted approval
C21_CalledAfterApproval ==
  \E project_id \in ProjectIds :
    /\ <<project_id, "generation">> \in provider_calls
    /\ PipelinesOf(project_id) = 1

\* C22: a create or list request without valid credentials is answered 401
C22_UnauthenticatedAnswered401 ==
  (/\ last_response.handler \in {"create_project", "list_projects"}
   /\ ~last_response.authenticated)
    => last_response.code = 401

\* C29: at most one generation pipeline is ever started for a project
C29_AtMostOnePipelinePerProject ==
  \A project_id \in ProjectIds : PipelinesOf(project_id) <= 1

\* C30: completed and failed are terminal: no API request changes the status
\* of a project that is completed or failed
C30_TerminalStatusesStay ==
  [][ApiRequest =>
       \A project_id \in ProjectIds :
         (/\ Found(project_id)
          /\ project_states[project_id].status \in TerminalStatuses)
           => project_states'[project_id].status
                = project_states[project_id].status]_vars

====
